---- MODULE Spec2Model ----
(***************************************************************************)
(* BoilerJuice tank monitor: the scraper (app/scraper.py) driven by the    *)
(* aiohttp request handlers and the auto-refresh loop (app/server.py).     *)
(*                                                                         *)
(* All handlers and the loop are coroutines of ONE asyncio event loop.     *)
(* The scraper's methods are "async def" but contain no await: they block  *)
(* the loop's thread in time.sleep and in the Selenium calls.  The model   *)
(* keeps every task's position, splits each browser operation at its       *)
(* blocking sleep, and lets another task run only where the code yields.   *)
(*                                                                         *)
(* Text is a sequence of one-character strings; numbers of the tank        *)
(* reading are kept in tenths (45.0 % is 450).                             *)
(***************************************************************************)
EXTENDS Integers, Sequences, FiniteSets, TLC

(***************************************************************************)
(* Bounds of the model.                                                    *)
(***************************************************************************)
\* foreground request slots (concurrent HTTP requests)
MaxFg == 1
\* tank readings created in one run (the clock of TankData.timestamp)
MaxReadings == 1
\* fragments concatenated into a page text (classifier check)
MaxFrags == 2
\* appends performed in the history check
MaxAppends == 3
\* the small values (in tenths) among those found on a page (extraction check)
MaxSmall == 3

\* the visible text of a page of the strategy check has up to MaxTokens phrases
MaxTokens == 2

(***************************************************************************)
(* Text                                                                    *)
(***************************************************************************)
UpperAlpha ==
  <<"A","B","C","D","E","F","G","H","I","J","K","L","M",
    "N","O","P","Q","R","S","T","U","V","W","X","Y","Z">>

LowerAlpha ==
  <<"a","b","c","d","e","f","g","h","i","j","k","l","m",
    "n","o","p","q","r","s","t","u","v","w","x","y","z">>

\* str.lower() on one character
LowerChar(c) ==
  IF \E i \in 1..26 : UpperAlpha[i] = c
    THEN LowerAlpha[CHOOSE i \in 1..26 : UpperAlpha[i] = c]
    ELSE c

\* str.lower()
Lower(s) == [i \in 1..Len(s) |-> LowerChar(s[i])]

\* the Python test "needle in hay"
Contains(hay, needle) ==
  \E i \in 0..(Len(hay) - Len(needle)) :
    \A j \in 1..Len(needle) : hay[i + j] = needle[j]

CAPTCHA_INDICATORS ==
  { <<"h","u","m","a","n"," ","v","e","r","i","f","i","c","a","t","i","o","n">>,
    <<"c","a","p","t","c","h","a">>,
    <<"a","w","s","w","a","f">>,
    <<"c","o","n","f","i","r","m"," ","y","o","u"," ","a","r","e"," ","h","u","m","a","n">> }

LOGIN_INDICATORS ==
  { <<"u","s","e","r","[","e","m","a","i","l","]">>,
    <<"u","s","e","r","[","p","a","s","s","w","o","r","d","]">>,
    <<"l","o","g"," ","i","n">>,
    <<"s","i","g","n"," ","i","n">> }

TANK_INDICATORS ==
  { <<"t","a","n","k">>,
    <<"l","i","t","r","e","s">>,
    <<"o","i","l">>,
    <<"c","a","p","a","c","i","t","y">>,
    <<"u","s","a","b","l","e">> }

\* any(indicator in html_lower for indicator in indicators)
AnyIn(html_lower, indicators) ==
  \E k \in indicators : Contains(html_lower, k)

\* a slip in the order of the tests: login before captcha
DetectPageType_LoginFirst(html) ==
  LET html_lower == Lower(html) IN
  IF AnyIn(html_lower, LOGIN_INDICATORS) THEN "login"
  ELSE IF AnyIn(html_lower, CAPTCHA_INDICATORS) THEN "captcha"
  ELSE IF AnyIn(html_lower, TANK_INDICATORS) THEN "tank"
  ELSE "unknown"

\* BoilerJuiceScraper._detect_page_type
DetectPageType(html) ==
  LET html_lower == Lower(html) IN
  IF AnyIn(html_lower, CAPTCHA_INDICATORS) THEN "captcha"
  ELSE IF AnyIn(html_lower, LOGIN_INDICATORS) THEN "login"
  ELSE IF AnyIn(html_lower, TANK_INDICATORS) THEN "tank"
  ELSE "unknown"

(***************************************************************************)
(* Pages of the site.  A page is its markup (what page_source returns),    *)
(* the login-form elements the CSS selectors of auth_fill_login find, and  *)
(* the values steps 1-4 of _extract_tank_data find on it (0: not found).   *)
(***************************************************************************)
F_CAPTCHA == <<"C","A","P","T","C","H","A">>
F_Human == <<"C","o","n","f","i","r","m"," ","Y","o","u"," ","A","r","e"," ","H","u","m","a","n">>
F_email == <<"u","s","e","r","[","e","m","a","i","l","]">>
F_SignIn == <<"S","i","g","n"," ","I","n">>
F_Tank == <<"T","a","n","k">>
F_oil == <<"o","i","l">>
F_Hello == <<"H","e","l","l","o">>
F_Cap == <<"C","a","p">>
F_tcha == <<"t","c","h","a">>
F_Log == <<"L","o","g"," ">>
F_In == <<"I","n">>

NoFound == [percent |-> 0, litres |-> 0, scraped_capacity |-> 0]

NoForm == [email |-> FALSE, password |-> FALSE, submit |-> FALSE]

MkPage(html, form, found) == [html |-> html, form |-> form, found |-> found]

\* about:blank, the page of a browser that has not navigated yet
BlankPage == MkPage(<<>>, NoForm, NoFound)

P_Captcha == MkPage(F_CAPTCHA, NoForm, NoFound)

P_Login == MkPage(F_email \o F_SignIn, [email |-> TRUE, password |-> TRUE, submit |-> TRUE], NoFound)

\* a page that only carries a "Sign In" link: classified login, no form on it
P_SignInLink == MkPage(F_Hello \o F_SignIn, NoForm, NoFound)

\* tank page showing 45 %
P_TankPct == MkPage(F_Tank \o F_oil,
                    NoForm, [percent |-> 450, litres |-> 0, scraped_capacity |-> 0])

P_Unknown == MkPage(F_Hello, NoForm, NoFound)

DataPages == {P_TankPct}

PlainPages == {P_Captcha, P_Login, P_SignInLink, P_Unknown}

SitePages == PlainPages \cup DataPages

\* the fragments the texts of the classifier check are made of
Fragments == {F_CAPTCHA, F_Human, F_email, F_SignIn, F_Tank, F_oil, F_Hello,
              F_Cap, F_tcha, F_Log, F_In}

RECURSIVE Texts(_)
Texts(n) ==
  IF n = 0 THEN {<<>>}
  ELSE LET shorter == Texts(n - 1)
       IN  shorter \cup {s \o f : s \in shorter, f \in Fragments}

\* pages that are a bare text
TextPages == {MkPage(html, NoForm, NoFound) : html \in Texts(MaxFrags)}

\* The values steps 1-4 of _extract_tank_data may find, in tenths.  The
\* data-percentage attribute and the script JSON are taken as they are
\* (float(...), no range test), so a percent may lie outside (0, 100] and a
\* value may be negative; the texts only give digits.
PercentsFound == (0 .. MaxSmall) \cup {-50, 10, 300, 333, 450, 600, 1000, 1500}

LitresFound == (0 .. MaxSmall) \cup {-30, 3333, 4500, 12000}

CapacitiesFound == {-10, 0, 10, 10000, 10040}

\* the user_capacity a caller of _extract_tank_data may pass
UserCapacities == {-10, 0, 10000, 10050}

\* the markups of the extraction check: a tank page, a tank page with a
\* "Sign In" link, a tank page behind a challenge
ExtractTexts == {F_Tank \o F_oil, F_Tank \o F_SignIn, F_CAPTCHA \o F_Tank}

ExtractPages ==
  {MkPage(html, NoForm, found) :
     html \in ExtractTexts,
     found \in [percent : PercentsFound, litres : LitresFound,
                scraped_capacity : CapacitiesFound]}

(***************************************************************************)
(* Steps 1-4 of _extract_tank_data.  What the strategies see on a page:    *)
(* the data-percentage attribute, the values the litre and capacity        *)
(* selectors give, the visible text, and the JSON objects of the scripts   *)
(* (0: nothing there).  The visible text is a sequence of phrases, each    *)
(* of one kind and with one number (in tenths):                            *)
(*   "pct"               "<n>%"                                            *)
(*   "level"             "level: <n>"                                      *)
(*   "litres_remaining"  "<n> litres remaining"                            *)
(*   "litres_l"          "<n> L"                                           *)
(*   "capacity_is"       "capacity: <n>"                                   *)
(*   "n_capacity"        "<n> capacity"                                    *)
(*   "comma_capacity"    ", capacity": [\d,]+ matches the comma alone      *)
(***************************************************************************)
\* the texts of up to n phrases
RECURSIVE TokenTexts(_)
TokenTexts(n) ==
  IF n = 0 THEN {<<>>}
  ELSE LET shorter == TokenTexts(n - 1)
           phrases ==
             {[k |-> "pct", v |-> 0], [k |-> "pct", v |-> 450],
              [k |-> "pct", v |-> 1500], [k |-> "level", v |-> 300],
              [k |-> "litres_remaining", v |-> 4500],
              [k |-> "litres_l", v |-> 0], [k |-> "litres_l", v |-> 2000],
              [k |-> "capacity_is", v |-> 10040],
              [k |-> "n_capacity", v |-> 12000],
              [k |-> "comma_capacity", v |-> 0]}
       IN  shorter \cup {Append(s, k) : s \in shorter, k \in phrases}

\* tank pages with every combination of what the strategies see (src): the
\* data-percentage attribute, the values of the litre and capacity
\* selectors, the visible text, and the values under the percent, litres and
\* capacity keys of the script JSON (0: no such key)
StrategyPages ==
  {[html |-> F_Tank \o F_oil, form |-> NoForm,
    src |-> [attr_percent |-> a, sel_litres |-> l, sel_capacity |-> c,
             text |-> text, script |-> script]] :
     a \in {0, 450}, l \in {0, 3000}, c \in {0, 10000},
     text \in TokenTexts(MaxTokens),
     script \in [percent : {0, 600}, litres : {0, 5000}, capacity : {0, 12000}]}

\* self._detect_page_type(self._driver.page_source), tabulated over the pages
PageTypeOf ==
  [pg \in SitePages \cup {BlankPage} \cup TextPages \cup ExtractPages
             \cup StrategyPages |->
     DetectPageType(pg.html)]

(***************************************************************************)
(* Tank readings                                                           *)
(***************************************************************************)
\* round(): the nearest integer to a / b (a >= 0, b > 0).  A tie goes to the
\* even one, as round() does on a value that is exact in binary; where the
\* float is not exact the tie may fall either way, and no property below
\* depends on the side
RoundDiv(a, b) ==
  LET q == a \div b
      r == a % b
  IN  IF 2 * r < b THEN q
      ELSE IF 2 * r > b THEN q + 1
      ELSE IF q % 2 = 0 THEN q ELSE q + 1

\* class TankData
TankData(litres, percent, capacity, level_name, timestamp) ==
  [litres |-> litres, percent |-> percent, capacity |-> capacity,
   level_name |-> level_name, timestamp |-> timestamp]

\* Python's None where a TankData is expected
NoTankData == TankData(0, 0, 0, "Unknown", 0)

\* int() in place of round(): the litres are cut, not rounded
DeriveLitres_Truncates(capacity, percent) == (capacity * percent) \div 1000

\* line 664: round(capacity * percent / 100, 1)
DeriveLitres(capacity, percent) == RoundDiv(capacity * percent, 1000)

\* int() in place of round(): the percent is cut, not rounded
DerivePercent_Truncates(litres, capacity) == (litres * 1000) \div capacity

\* line 668: round(litres / capacity * 100, 1)
DerivePercent(litres, capacity) == RoundDiv(litres * 1000, capacity)

\* line 672: round(litres / (percent / 100), 0)
DeriveCapacity(litres, percent) == 10 * RoundDiv(litres * 100, percent)

\* the scraped capacity taken although the caller supplies one
PickCapacity_ScrapedFirst(user_cap, scraped_capacity) ==
  IF scraped_capacity > 0 THEN scraped_capacity ELSE user_cap

\* line 657: the caller's capacity, or else the scraped one
PickCapacity(user_cap, scraped_capacity) ==
  IF user_cap > 0 THEN user_cap ELSE scraped_capacity

\* the test of line 678 taken over the capacity too
Meaningful_WithCapacity(litres, percent, capacity) ==
  litres > 0 \/ percent > 0 \/ capacity > 0

\* line 678: "if litres > 0 or percent > 0"
Meaningful(litres, percent, capacity) == litres > 0 \/ percent > 0

\* the bands with their limits moved: ">" in place of ">="
LevelName_Strict(percent) ==
  IF percent > 600 THEN "High"
  ELSE IF percent > 300 THEN "Medium"
  ELSE "Low"

\* lines 679-684: the band of a percent (in tenths)
LevelName(percent) ==
  IF percent >= 600 THEN "High"
  ELSE IF percent >= 300 THEN "Medium"
  ELSE "Low"

(***************************************************************************)
(* Steps 1-4 of _extract_tank_data on what the strategies see              *)
(***************************************************************************)
\* re.search returning None
NoMatch == [k |-> "none", v |-> 0]

\* re.search(p, text): the leftmost phrase the pattern matches (kinds: the
\* kinds of phrase it matches), or None
RECURSIVE Search(_, _)
Search(kinds, text) ==
  IF text = <<>> THEN NoMatch
  ELSE IF Head(text).k \in kinds THEN Head(text)
  ELSE Search(kinds, Tail(text))

\* lines 515-519: "<n>% full|level|remaining" with the suffix optional, so it
\* matches every "<n>%"; "level|percentage|percent: <n>"; "<n>%"
pct_patterns == << {"pct"}, {"level"}, {"pct"} >>

\* lines 572-579, the first and the last of the six: "<n> litres remaining",
\* "<n> L"
litre_patterns == << {"litres_remaining"}, {"litres_l"} >>

\* lines 609-613, the first and the last of the three: "capacity: <n>",
\* "<n> capacity" (which matches ", capacity" too)
cap_patterns == << {"capacity_is"}, {"n_capacity", "comma_capacity"} >>

\* lines 520-527: the match of the first pattern whose match lies in (0, 100];
\* a pattern is asked for its leftmost match only
TextPercent(text) ==
  LET m(i) == Search(pct_patterns[i], text)
      ok(i) == m(i) # NoMatch /\ 0 < m(i).v /\ m(i).v <= 1000
  IN  IF ok(1) THEN m(1).v
      ELSE IF ok(2) THEN m(2).v
      ELSE IF ok(3) THEN m(3).v
      ELSE 0

\* lines 580-587: the match of the first pattern whose match is > 0
TextLitres(text) ==
  LET m(i) == Search(litre_patterns[i], text)
      ok(i) == m(i) # NoMatch /\ m(i).v > 0
  IN  IF ok(1) THEN m(1).v
      ELSE IF ok(2) THEN m(2).v
      ELSE 0

\* lines 614-621: the match of the first pattern whose match is > 0
TextCapacity(text) ==
  LET m(i) == Search(cap_patterns[i], text)
      ok(i) == m(i) # NoMatch /\ m(i).v > 0
  IN  IF ok(1) THEN m(1).v
      ELSE IF ok(2) THEN m(2).v
      ELSE 0

\* the values of the script JSON written over the ones found before
Steps1to4_ScriptOverwrites(pg) ==
  IF "src" \notin DOMAIN pg THEN pg.found ELSE
  LET src == pg.src
      percent2 == IF src.attr_percent = 0 THEN TextPercent(src.text)
                  ELSE src.attr_percent
      litres2 == IF src.sel_litres = 0 THEN TextLitres(src.text)
                 ELSE src.sel_litres
      capacity2 == IF src.sel_capacity = 0 THEN TextCapacity(src.text)
                   ELSE src.sel_capacity
  IN  [percent |-> IF src.script.percent # 0 THEN src.script.percent ELSE percent2,
       litres |-> IF src.script.litres # 0 THEN src.script.litres ELSE litres2,
       scraped_capacity |-> IF src.script.capacity # 0 THEN src.script.capacity
                            ELSE capacity2]

\* lines 500-653: the dict "data" after the four steps, on a page that tells
\* what the strategies see (or, on the other pages, the values the page is
\* given with).  Every later strategy of a field is behind
\* "if not data.get(field)"
Steps1to4(pg) ==
  IF "src" \notin DOMAIN pg THEN pg.found ELSE
  LET src == pg.src
      percent1 == src.attr_percent
      percent2 == IF percent1 = 0 THEN TextPercent(src.text) ELSE percent1
      litres1 == src.sel_litres
      litres2 == IF litres1 = 0 THEN TextLitres(src.text) ELSE litres1
      capacity1 == src.sel_capacity
      capacity2 == IF capacity1 = 0 THEN TextCapacity(src.text) ELSE capacity1
      litres4 == IF litres2 = 0 THEN src.script.litres ELSE litres2
      capacity4 == IF capacity2 = 0 THEN src.script.capacity ELSE capacity2
      percent4 == IF percent2 = 0 THEN src.script.percent ELSE percent2
  IN  [percent |-> percent4, litres |-> litres4, scraped_capacity |-> capacity4]

\* lines 608-617: the text patterns of the capacity are tried when no selector
\* gave one, and float("") on the match ", capacity" raises ValueError, which
\* no try of steps 1-4 catches: it reaches line 696
Steps1to4Raise(pg) ==
  /\ "src" \in DOMAIN pg
  /\ LET m(i) == Search(cap_patterns[i], pg.src.text)
     IN  /\ pg.src.sel_capacity = 0
         /\ ~(m(1) # NoMatch /\ m(1).v > 0)
         /\ m(2).k = "comma_capacity"

\* _extract_tank_data: step 5 on the values found on the page (None when the
\* steps before it raised)
ExtractTankData(pg, user_cap, now) ==
  \* lines 696-698
  IF Steps1to4Raise(pg) THEN NoTankData ELSE
  \* lines 655-694, on the dict "data" of the steps before
  LET Step5(data) ==
        LET capacity0 == PickCapacity(user_cap, data.scraped_capacity)
            percent0 == data.percent
            litres0 == data.litres
            litres == IF litres0 = 0 /\ percent0 > 0 /\ capacity0 > 0
                        THEN DeriveLitres(capacity0, percent0) ELSE litres0
            percent == IF percent0 = 0 /\ litres > 0 /\ capacity0 > 0
                        THEN DerivePercent(litres, capacity0) ELSE percent0
            capacity == IF capacity0 = 0 /\ litres > 0 /\ percent > 0
                        THEN DeriveCapacity(litres, percent) ELSE capacity0
        IN  IF Meaningful(litres, percent, capacity)
              THEN TankData(litres, percent, capacity, LevelName(percent), now)
              ELSE NoTankData
  IN  Step5(Steps1to4(pg))

(***************************************************************************)
(* State                                                                   *)
(***************************************************************************)
VARIABLES
  driver,            \* self._driver: "none" or "live"
  page,              \* the page in the browser's tab
  cookie_file,       \* COOKIE_FILE: the cookies saved ({}: no file, or an empty list)
  history_file,      \* HISTORY_FILE: the readings, oldest first (<<>>: no file)
  auth_in_progress,  \* self._auth_in_progress
  last_error,        \* self._last_error
  last_tank_data,    \* self._last_tank_data
  config,            \* CONFIG_FILE
  user_capacity,     \* the user_capacity argument of fetch_tank_data (server.py
                     \* passes none: the default 0)
  clock,             \* the time of the last reading (TankData.timestamp)
  pc,                \* position of every task of the event loop
  call,              \* the locals and driver calls of the handler that ran last
  shutdown           \* on_cleanup: "running", "cancelling", "closed"

vars == <<driver, page, cookie_file, history_file, auth_in_progress,
          last_error, last_tank_data, config, user_capacity, clock, pc, call,
          shutdown>>

LoopTask == 0

Fg == 1..MaxFg

Tasks == {LoopTask} \cup Fg

\* alternative URLs tried by fetch_tank_data
AltCount == 3

\* "Keep last 500 readings"
HistoryCap == 500

FetchPcs == {"fetch0", "fetch1", "fetch2", "fetch3"}

FetchIdx(p) == CASE p = "fetch0" -> 0 [] p = "fetch1" -> 1 [] p = "fetch2" -> 2 [] OTHER -> 3

FetchPc(i) == CASE i = 0 -> "fetch0" [] i = 1 -> "fetch1" [] i = 2 -> "fetch2" [] OTHER -> "fetch3"

\* positions inside a browser operation: the task is in the operation's time.sleep
OpPcs == FetchPcs \cup {"start_auth", "auth_click", "auth_type", "auth_press_key",
                        "auth_fill_login"}

SleepPcs == {"sleep60", "sleep_interval", "sleep300"}

\* as if the operations awaited asyncio.sleep: the loop's thread is given up
HoldsThread_Awaits(p) == FALSE

\* time.sleep() blocks the thread of the event loop; asyncio.sleep() and an idle
\* task do not
HoldsThread(p) == p \in OpPcs

\* the tasks whose browser operation has begun and has not finished
InFlight == {t \in Tasks : pc[t] \in OpPcs}

\* task t may take a step: no other task holds the event loop's thread
CanRun(t) == \A u \in Tasks \ {t} : ~HoldsThread(pc[u])

(***************************************************************************)
(* Configuration (server.py load_config / save_config)                     *)
(***************************************************************************)
Unset == [t |-> "unset", v |-> 0]

Num(n) == [t |-> "int", v |-> n]

\* a JSON value that is no number, e.g. the string "x" or null
NotANumber == [t |-> "str", v |-> 0]

Cfg(tank_id, refresh_interval, mqtt_enabled) ==
  [tank_id |-> tank_id, refresh_interval |-> refresh_interval,
   mqtt_enabled |-> mqtt_enabled]

\* {}: no config file yet.  tank_id "" stands for unset too (config.get("tank_id", ""))
EmptyConfig == Cfg("", Unset, FALSE)

\* the bodies POSTed to /api/config: the settings form, and a body with the tank id only
ConfigBodies ==
  { [tank_id |-> "T1", refresh_interval |-> Num(1), mqtt_enabled |-> TRUE],
    [tank_id |-> "T1", refresh_interval |-> Num(0), mqtt_enabled |-> FALSE],
    [tank_id |-> "T1", refresh_interval |-> NotANumber, mqtt_enabled |-> FALSE],
    [tank_id |-> "T1"] }

\* api_set_config: the keys of the body overwrite the stored ones
MergeConfig(cfg, body) ==
  [k \in DOMAIN cfg |-> IF k \in DOMAIN body THEN body[k] ELSE cfg[k]]

\* config.get("refresh_interval") without the default
IntervalOf_NoDefault(cfg) == cfg.refresh_interval

\* config.get("refresh_interval", 60)
IntervalOf(cfg) ==
  IF cfg.refresh_interval.t = "unset" THEN Num(60) ELSE cfg.refresh_interval

(***************************************************************************)
(* Results and the record of a call                                        *)
(***************************************************************************)
Res(success, error, needs_auth, logged_in, page_type, screenshot, data) ==
  [success |-> success, error |-> error, needs_auth |-> needs_auth,
   logged_in |-> logged_in, page_type |-> page_type, screenshot |-> screenshot,
   data |-> data, history |-> <<>>]

\* {"success": False, "error": ...}
Fail(error) == Res(FALSE, error, FALSE, "absent", "absent", FALSE, NoTankData)

NoRes == Res(FALSE, "pending", FALSE, "absent", "absent", FALSE, NoTankData)

\* the exception of the driver leaves the method: the handler has no result
DriverFailure_Raises == Fail("raised")

\* "except Exception as e: return {"success": False, "error": str(e)}", the
\* clause every browser method ends with (lines 251, 282, 297, 319, 396, 477)
DriverFailure == Fail("exception")

\* the requests that drive the browser
BrowserKinds == {"refresh", "start", "click", "type", "key", "fill_login"}

\* kind: the handler; queued: its request drives the browser and waited for the
\* thread; mqtt: the mqtt_enabled of the config it loaded (kept while it runs);
\* eff: the calls it made on the driver and the files; done, res: its result
MkCall(t, kind, queued, mqtt, eff, done, res) ==
  [kind |-> kind, queued |-> queued /\ kind \in BrowserKinds,
   mqtt |-> mqtt /\ ~done, eff |-> eff, done |-> done, res |-> res]

NoCall == MkCall(LoopTask, "none", FALSE, FALSE, {}, TRUE, NoRes)


(***************************************************************************)
(* Helpers of the scraper                                                  *)
(***************************************************************************)
\* get_screenshot_base64: a screenshot, or None (FALSE).  drv_ok: the driver
\* answers; when it does not, its calls raise
Screenshot(d, drv_ok) == d = "live" /\ drv_ok

\* get_page_info()["page_type"]
PageInfoType(d, drv_ok, pg) ==
  IF d = "none" THEN "none"
  ELSE IF ~drv_ok THEN "error"
  ELSE PageTypeOf[pg]

\* what driver.get_cookies() may return: the cookies of the browser session
CookieJars == {{}, {"sid"}}

\* _save_cookies: the file after the call, cookies being those of the browser
SaveCookies(d, drv_ok, cookies, file) ==
  IF d = "live" /\ drv_ok THEN cookies ELSE file

\* the outcomes of _ensure_driver followed by driver.get: the browser cannot be
\* created, the navigation raises, or a page is loaded
NavOutcomes(d) ==
  (IF d = "none" THEN {"create_raises"} ELSE {}) \cup {"get_raises", "loaded"}

\* the handle assigned before the creation has returned
EnsureDriver_KeepsBroken(d, o) == "live"

\* lines 147-148: the handle after _ensure_driver (and after the driver.get
\* that follows it, which does not touch the handle): a handle that is held
\* is kept, and "self._driver = self._create_driver()" assigns only when the
\* creation returns
EnsureDriver(d, o) ==
  IF d # "none" THEN d
  ELSE IF o = "create_raises" THEN "none"
  ELSE "live"

\* _load_cookies called whether or not the driver was just created
EnsureEff_Reloads(d, o) ==
  IF d # "none" THEN {"load_cookies"}
  ELSE IF o = "create_raises" THEN {"create_driver"}
  ELSE {"create_driver", "load_cookies"}

\* the driver calls of _ensure_driver, in the record of the call
EnsureEff(d, o) ==
  IF d # "none" THEN {}
  ELSE IF o = "create_raises" THEN {"create_driver"}
  ELSE {"create_driver", "load_cookies"}

\* the file opened for writing before it was read: the new reading is all
\* that is written
SaveHistory_Rewrites(history, tank_data, io_ok) ==
  IF ~io_ok THEN history ELSE <<tank_data>>

\* the reading appended twice
SaveHistory_Twice(history, tank_data, io_ok) ==
  IF ~io_ok THEN history
  ELSE LET h == Append(Append(history, tank_data), tank_data)
       IN  IF Len(h) > HistoryCap
             THEN SubSeq(h, Len(h) - HistoryCap + 1, Len(h))
             ELSE h

\* "history[-501:]": the cut keeps one reading too many
SaveHistory_OffByOne(history, tank_data, io_ok) ==
  IF ~io_ok THEN history
  ELSE LET h == Append(history, tank_data)
       IN  IF Len(h) > HistoryCap
             THEN SubSeq(h, Len(h) - HistoryCap, Len(h))
             ELSE h

\* _save_history: the file after appending tank_data (io_ok: the file could be
\* read and written; otherwise the exception is logged and the file is kept)
SaveHistory(history, tank_data, io_ok) ==
  IF ~io_ok THEN history
  ELSE LET h == Append(history, tank_data)
       IN  IF Len(h) > HistoryCap
             THEN SubSeq(h, Len(h) - HistoryCap + 1, Len(h))
             ELSE h

\* the pages a navigation of fetch_tank_data may be served: the site shows a
\* reading MaxReadings times in a run
Served == IF clock < MaxReadings THEN SitePages ELSE PlainPages

Init ==
  /\ driver = "none"
  /\ page = BlankPage
  /\ cookie_file = {}
  /\ history_file = <<>>
  /\ auth_in_progress = FALSE
  /\ last_error = "None"
  /\ last_tank_data = NoTankData
  /\ config = EmptyConfig
  /\ user_capacity = 0
  /\ clock = 0
  /\ pc = [t \in Tasks |-> IF t = LoopTask THEN "start" ELSE "idle"]
  /\ call = NoCall
  /\ shutdown = "running"

(***************************************************************************)
(* Requests reach the server at any time; a handler starts when the event  *)
(* loop's thread is free.  A request that arrives while a browser          *)
(* operation is in flight waits in "queued" for the thread; one that       *)
(* arrives while the thread is free starts at once.  (Reading the request  *)
(* body, the only await of a handler, comes before it touches any shared   *)
(* state: it is part of the wait.)  Nothing looks at a waiting request     *)
(* before its handler starts, so which request it is shows when it starts. *)
(***************************************************************************)
Arrive(t) ==
  /\ shutdown = "running"
  /\ InFlight # {}
  /\ pc[t] = "idle"
  /\ \A u \in Fg : u < t => pc[u] # "idle"
  /\ pc' = [pc EXCEPT ![t] = "queued"]
  /\ UNCHANGED <<driver, page, cookie_file, history_file, auth_in_progress,
                 last_error, last_tank_data, config, user_capacity, clock, call, shutdown>>

\* task t starts the handler of a request of this kind: one that waited, or one
\* that arrives now
Starts(t, kind) ==
  /\ t \in Fg
  /\ CanRun(t)
  /\ \/ pc[t] = "queued"
     \/ /\ pc[t] = "idle"
        /\ shutdown = "running"
        /\ \A u \in Fg : u < t => pc[u] # "idle"
        \* the requests that wait are served before one that arrives now
        /\ \A u \in Fg : pc[u] # "queued"

\* the request of task t arrived while a browser operation was in flight
Waited(t) == pc[t] = "queued"

\* the handler of foreground task t returns its response
Respond(t) ==
  pc' = [pc EXCEPT ![t] = "idle"]

(***************************************************************************)
(* fetch_tank_data, called by api_refresh and by auto_refresh_loop         *)
(***************************************************************************)
\* mqtt.publish_tank_data: the state is published; the broker cannot be
\* reached or the publish fails (logged inside, returns False); or it raises
\* (int(config["mqtt_port"]) of _get_mqtt_client is outside every try of mqtt.py)
PublishOutcomes == {"published", "returns_false", "raises"}

\* the record of the publish in the call
PublishEff(po) ==
  IF po = "none" THEN {}
  ELSE IF po = "published" THEN {"publish"}
  ELSE {"publish", "publish_failed"}

\* the publish outside the try of lines 292-296: its exception reaches the
\* "except Exception" of the loop
AfterPublishPc_Uncaught(po) == IF po = "raises" THEN "sleep300" ELSE "sleep_interval"

\* lines 289-300: where the loop goes after it handled the result of the fetch
\* (po: the outcome of the publish, "none" when nothing is published)
AfterPublishPc(po) == "sleep_interval"

\* lines 181-188: what api_refresh answers after the publish
AfterPublishRes(res, po) == res

\* what the caller does with the result: api_refresh answers, the loop goes to
\* sleep for the interval; both publish a successful reading when MQTT is enabled
\* (a failing publish is caught and logged).  stored: the files fetch_tank_data
\* wrote
AfterFetch(t, res, stored) ==
  \E po \in (IF res.success /\ call.mqtt THEN PublishOutcomes ELSE {"none"}) :
    /\ call' = [call EXCEPT !.done = TRUE, !.res = AfterPublishRes(res, po),
                            !.mqtt = FALSE,
                            !.eff = @ \cup stored \cup PublishEff(po)]
    /\ IF t = LoopTask
         THEN pc' = [pc EXCEPT ![t] = AfterPublishPc(po)]
         ELSE Respond(t)

\* server.py lines 179 and 287, "scraper.fetch_tank_data(tank_id)": the
\* user_capacity of the fetch is the default of the parameter, whatever the
\* config (cfg) holds
PassedCapacity(cfg) == 0

\* lines 414-422: _ensure_driver, driver.get(tank_url), time.sleep(3)
FetchStart(t, kind, queued, mqtt) ==
  \E o \in NavOutcomes(driver) :
    \E pg \in (IF o = "loaded" THEN Served ELSE {page}) :
      LET d1 == EnsureDriver(driver, o)
          eff1 == EnsureEff(driver, o)
                    \cup (IF o = "create_raises" THEN {} ELSE {"navigate"})
      IN  /\ driver' = d1
          /\ page' = pg
          /\ user_capacity' = PassedCapacity(config)
          /\ UNCHANGED <<cookie_file, history_file, auth_in_progress, last_error,
                         last_tank_data, config, clock, shutdown>>
          /\ IF o = "loaded"
               THEN /\ call' = MkCall(t, kind, queued, mqtt, eff1, FALSE, NoRes)
                    /\ pc' = [pc EXCEPT ![t] = "fetch0"]
               ELSE /\ call' = MkCall(t, kind, queued, mqtt, eff1, TRUE, DriverFailure)
                    /\ IF t = LoopTask
                         THEN pc' = [pc EXCEPT ![t] = "sleep_interval"]
                         ELSE Respond(t)

\* the page of the primary URL is asked for its type whatever it is
NeedsAuth_CaptchaOnly(i, page_type) == i = 0 /\ page_type = "captcha"

\* lines 427-439: the page of the primary URL (number 0) is a captcha or a
\* login page; the pages of the alternative URLs are not classified
NeedsAuth(i, page_type) == i = 0 /\ page_type \in {"captcha", "login"}

\* the loop over the alternative URLs ending one URL early
MovesOn_GivesUpEarly(needs_auth, found, i) ==
  ~needs_auth /\ ~found /\ i < AltCount - 1

\* lines 441-463: the next alternative URL is visited when the page of URL
\* number i gave no reading (and was not taken for an auth page) and an
\* alternative URL is left
MovesOn(needs_auth, found, i) == ~needs_auth /\ ~found /\ i < AltCount

\* the outcomes of the step of fetch_tank_data that follows a sleep: the driver
\* raises, or the page is read, and then the next navigation (if one is made)
\* raises or loads a page
StepOutcomes == {"driver_raises", "get_raises", "loaded"}

\* lines 424-479: after the sleep, on the page of URL number FetchIdx(pc[t])
FetchStep(t) ==
  /\ pc[t] \in FetchPcs
  /\ CanRun(t)
  /\ LET i == FetchIdx(pc[t])
         page_type == PageTypeOf[page]
         tank_data == ExtractTankData(page, user_capacity, clock + 1)
         needs_auth == NeedsAuth(i, page_type)
         found == ~needs_auth /\ tank_data # NoTankData
         moves == MovesOn(needs_auth, found, i)
     IN  \E o \in (IF moves THEN StepOutcomes ELSE {"driver_raises", "loaded"}) :
         \E pg \in (IF moves /\ o = "loaded" THEN Served ELSE {page}) :
         \E io_ok \in (IF found /\ o = "loaded" THEN BOOLEAN ELSE {TRUE}) :
         \E ck_ok \in (IF found /\ o = "loaded" THEN BOOLEAN ELSE {FALSE}) :
         \E cookies \in (IF ck_ok THEN CookieJars ELSE {{}}) :
          /\ UNCHANGED <<driver, auth_in_progress, last_error, config, user_capacity, shutdown>>
          /\ IF o # "loaded"
               \* page_source, driver.get or current_url raises
               THEN /\ UNCHANGED <<page, cookie_file, history_file,
                                   last_tank_data, clock>>
                    /\ AfterFetch(t, DriverFailure, {})
             ELSE IF needs_auth
               THEN /\ UNCHANGED <<page, cookie_file, history_file,
                                   last_tank_data, clock>>
                    /\ AfterFetch(t,
                         Res(FALSE, IF page_type = "captcha" THEN "captcha_required"
                                    ELSE "session_expired",
                             TRUE, "absent", "absent", FALSE, NoTankData), {})
             ELSE IF found
               THEN /\ last_tank_data' = tank_data
                    /\ clock' = clock + 1
                    /\ cookie_file' = SaveCookies(driver, ck_ok, cookies, cookie_file)
                    /\ history_file' = SaveHistory(history_file, tank_data, io_ok)
                    /\ UNCHANGED page
                    /\ AfterFetch(t,
                         Res(TRUE, "", FALSE, "absent", "absent", FALSE, tank_data),
                         (IF ck_ok THEN {"save_cookies"} ELSE {})
                           \cup (IF io_ok THEN {"save_history"} ELSE {}))
             ELSE IF moves
               THEN /\ UNCHANGED <<cookie_file, history_file, last_tank_data, clock>>
                    /\ page' = pg
                    /\ call' = [call EXCEPT !.eff = @ \cup {"navigate_alt"}]
                    /\ pc' = [pc EXCEPT ![t] = FetchPc(i + 1)]
             ELSE /\ UNCHANGED <<page, cookie_file, history_file,
                                 last_tank_data, clock>>
                  /\ AfterFetch(t, Fail("no_data"), {})

(***************************************************************************)
(* server.py: api_refresh and auto_refresh_loop                            *)
(***************************************************************************)
ApiRefresh(t) ==
  /\ Starts(t, "refresh")
  /\ IF config.tank_id = ""
       THEN /\ call' = MkCall(t, "refresh", Waited(t), config.mqtt_enabled, {}, TRUE,
                              Fail("no_tank_id"))
            /\ Respond(t)
            /\ UNCHANGED <<driver, page, cookie_file, history_file,
                           auth_in_progress, last_error, last_tank_data, config, user_capacity,
                           clock, shutdown>>
       ELSE FetchStart(t, "refresh", Waited(t), config.mqtt_enabled)

\* an iteration that raised dies as if the loop had no "except Exception"
LoopExceptPc_Dies == "done"

\* lines 304-306: except Exception: log, await asyncio.sleep(300), next iteration
LoopExceptPc == "sleep300"

\* the timer of the loop's asyncio.sleep fires: the loop task is ready to run
LoopWake ==
  /\ shutdown = "running"
  /\ pc[LoopTask] \in SleepPcs
  /\ CanRun(LoopTask)
  /\ pc' = [pc EXCEPT ![LoopTask] = "ready"]
  /\ UNCHANGED <<driver, page, cookie_file, history_file, auth_in_progress,
                 last_error, last_tank_data, config, user_capacity, clock, call, shutdown>>

\* one iteration of the loop up to its first await: the first one, or the one
\* that follows a sleep
LoopIter ==
  /\ shutdown = "running"
  /\ pc[LoopTask] \in {"start", "ready"}
  /\ CanRun(LoopTask)
  /\ LET interval == IntervalOf(config)
     IN  IF interval.t # "int"
           \* "interval <= 0" raises TypeError: except Exception, sleep(300)
           THEN /\ pc' = [pc EXCEPT ![LoopTask] = LoopExceptPc]
                /\ call' = MkCall(LoopTask, "loop", FALSE, config.mqtt_enabled, {}, TRUE,
                                  Fail("loop_exception"))
                /\ UNCHANGED <<driver, page, cookie_file, history_file,
                               auth_in_progress, last_error, last_tank_data, config, user_capacity,
                               clock, shutdown>>
         ELSE IF interval.v <= 0 \/ config.tank_id = ""
           THEN /\ pc' = [pc EXCEPT ![LoopTask] = "sleep60"]
                /\ call' = MkCall(LoopTask, "loop", FALSE, config.mqtt_enabled, {}, TRUE,
                                  Fail("not_configured"))
                /\ UNCHANGED <<driver, page, cookie_file, history_file,
                               auth_in_progress, last_error, last_tank_data, config, user_capacity,
                               clock, shutdown>>
         ELSE FetchStart(LoopTask, "loop", FALSE, config.mqtt_enabled)

(***************************************************************************)
(* on_cleanup: cancel the loop, await it, close the browser                *)
(***************************************************************************)
\* task.cancel(); the handlers have finished when cleanup runs
CleanupCancel ==
  /\ shutdown = "running"
  /\ \A t \in Tasks : ~HoldsThread(pc[t])
  /\ \A t \in Fg : pc[t] = "idle"
  /\ shutdown' = "cancelling"
  /\ call' = MkCall(LoopTask, "cleanup", FALSE, FALSE, {"cancel"}, FALSE, NoRes)
  /\ UNCHANGED <<driver, page, cookie_file, history_file, auth_in_progress,
                 last_error, last_tank_data, config, user_capacity, clock, pc>>

\* the sleep of the "except Exception" clause swallowing the cancellation
CancelledPc_BackoffSwallows(p) == IF p = "sleep300" THEN "sleep300" ELSE "done"

\* where CancelledError leaves the loop task: raised at the sleeps of lines 278,
\* 283 and 300 it is caught at line 302 ("break"); raised at the sleep of
\* line 306, inside the except clause, it leaves the coroutine; a task
\* cancelled before its first step never runs.  The task is finished in each
\* case.
CancelledPc(p) == "done"

\* CancelledError is raised in the loop at its await (or before its first step)
LoopCancelled ==
  /\ shutdown = "cancelling"
  /\ pc[LoopTask] \in SleepPcs \cup {"start", "ready"}
  /\ CanRun(LoopTask)
  /\ pc' = [pc EXCEPT ![LoopTask] = CancelledPc(pc[LoopTask])]
  /\ UNCHANGED <<driver, page, cookie_file, history_file, auth_in_progress,
                 last_error, last_tank_data, config, user_capacity, clock, call, shutdown>>

\* close without its "finally": a quit that raises leaves the handle
Close_KeepsOnError(d, quit_ok) == IF quit_ok THEN "none" ELSE d

\* BoilerJuiceScraper.close: the handle after the call (quit_ok: driver.quit
\* returns; when it raises, the error is logged and "finally" clears the handle)
Close(d, quit_ok) == "none"

\* the driver calls of close, in the record of the call
CloseEff(d, quit_ok) ==
  IF d = "none" THEN {}
  ELSE IF quit_ok THEN {"quit"}
  ELSE {"quit", "quit_raises"}

\* "await task" has returned: scraper.close()
CleanupClose ==
  /\ shutdown = "cancelling"
  /\ pc[LoopTask] = "done"
  /\ \A t \in Tasks : ~HoldsThread(pc[t])
  /\ shutdown' = "closed"
  /\ \E quit_ok \in (IF driver = "live" THEN BOOLEAN ELSE {TRUE}) :
       /\ driver' = Close(driver, quit_ok)
       /\ call' = [call EXCEPT !.done = TRUE,
                               !.eff = @ \cup CloseEff(driver, quit_ok)]
  /\ UNCHANGED <<page, cookie_file, history_file, auth_in_progress,
                 last_error, last_tank_data, config, user_capacity, clock, pc>>

(***************************************************************************)
(* The auth flow: start_auth, auth_click, auth_type, auth_press_key,       *)
(* auth_fill_login, finish_auth, each behind its handler of server.py      *)
(***************************************************************************)
AuthFrame == UNCHANGED <<history_file, last_tank_data, config, user_capacity, clock, shutdown>>

\* the operation returns before any sleep
ReturnsAtOnce(t, kind, eff, res) ==
  /\ call' = MkCall(t, kind, Waited(t), config.mqtt_enabled, eff, TRUE, res)
  /\ Respond(t)

\* the operation goes into its sleep at position p
GoesToSleep(t, kind, eff, p) ==
  /\ call' = MkCall(t, kind, Waited(t), config.mqtt_enabled, eff, FALSE, NoRes)
  /\ pc' = [pc EXCEPT ![t] = p]

\* the tail shared by start_auth, auth_click, auth_type and auth_press_key:
\* screenshot and page info, {"success": True, ...}
RelayEnd(t, p) ==
  /\ pc[t] = p
  /\ CanRun(t)
  /\ \E drv_ok \in BOOLEAN :
       call' = [call EXCEPT !.done = TRUE,
                            !.res = Res(TRUE, "", FALSE, "absent",
                                        PageInfoType(driver, drv_ok, page),
                                        Screenshot(driver, drv_ok), NoTankData)]
  /\ Respond(t)
  /\ UNCHANGED <<driver, page, cookie_file, auth_in_progress, last_error>>
  /\ AuthFrame

\* start_auth forgetting line 240
InProgressAfterStart_Keeps(old) == old

\* line 240: the flag start_auth leaves, whatever page the login URL shows
InProgressAfterStart(old) == TRUE

StartAuthBegin(t) ==
  /\ Starts(t, "start")
  /\ \E o \in NavOutcomes(driver) :
     \E pg \in (IF o = "loaded" THEN SitePages ELSE {page}) :
      LET d1 == EnsureDriver(driver, o)
          eff1 == EnsureEff(driver, o)
                    \cup (IF o = "create_raises" THEN {} ELSE {"navigate"})
      IN  /\ auth_in_progress' = InProgressAfterStart(auth_in_progress)
          /\ driver' = d1
          /\ page' = pg
          /\ UNCHANGED cookie_file
          /\ AuthFrame
          /\ IF o = "loaded"
               THEN /\ last_error' = "None"
                    /\ GoesToSleep(t, "start", eff1, "start_auth")
               ELSE /\ last_error' = "exception"
                    /\ ReturnsAtOnce(t, "start", eff1, DriverFailure)

StartAuthEnd(t) == RelayEnd(t, "start_auth")

\* the relay operations without their test of the handle
RelayAllowed_Always(d, in_progress) == TRUE

\* the guard of auth_click, auth_type and auth_press_key (lines 258, 287, 302)
RelayAllowed(d, in_progress) == d # "none"

\* the outcomes of the input call of a relay operation
InputOutcomes == {"raises", "done"}

\* the outcomes of auth_click: execute_script clicks; it raises and the
\* ActionChains click of the except clause (lines 272-281) clicks; both raise
ClickOutcomes == {"done", "fallback_done", "raises"}

AuthClickBegin(t) ==
  /\ Starts(t, "click")
  /\ UNCHANGED <<driver, cookie_file, auth_in_progress, last_error>>
  /\ AuthFrame
  /\ IF ~RelayAllowed(driver, auth_in_progress)
       THEN UNCHANGED page /\ ReturnsAtOnce(t, "click", {}, Fail("no_browser"))
       ELSE \E o \in ClickOutcomes :
            \E pg \in (IF o # "raises" THEN SitePages \cup {page} ELSE {page}) :
              /\ page' = pg
              /\ IF o = "done"
                   THEN GoesToSleep(t, "click", {"click"}, "auth_click")
                 ELSE IF o = "fallback_done"
                   THEN GoesToSleep(t, "click", {"click", "fallback"}, "auth_click")
                   ELSE ReturnsAtOnce(t, "click", {}, DriverFailure)

AuthClickEnd(t) == RelayEnd(t, "auth_click")

AuthTypeBegin(t) ==
  /\ Starts(t, "type")
  /\ UNCHANGED <<driver, page, cookie_file, auth_in_progress, last_error>>
  /\ AuthFrame
  /\ IF ~RelayAllowed(driver, auth_in_progress)
       THEN ReturnsAtOnce(t, "type", {}, Fail("no_browser"))
       ELSE \E o \in InputOutcomes :
              IF o = "done"
                THEN GoesToSleep(t, "type", {"type"}, "auth_type")
                ELSE ReturnsAtOnce(t, "type", {}, DriverFailure)

AuthTypeEnd(t) == RelayEnd(t, "auth_type")

AuthPressKeyBegin(t) ==
  /\ Starts(t, "key")
  /\ UNCHANGED <<driver, cookie_file, auth_in_progress, last_error>>
  /\ AuthFrame
  /\ IF ~RelayAllowed(driver, auth_in_progress)
       THEN UNCHANGED page /\ ReturnsAtOnce(t, "key", {}, Fail("no_browser"))
       ELSE \E o \in InputOutcomes :
            \E pg \in (IF o = "done" THEN SitePages \cup {page} ELSE {page}) :
              /\ page' = pg
              /\ IF o = "done"
                   THEN GoesToSleep(t, "key", {"key"}, "auth_press_key")
                   ELSE ReturnsAtOnce(t, "key", {}, DriverFailure)

AuthPressKeyEnd(t) == RelayEnd(t, "auth_press_key")

\* "self._auth_in_progress = True" in place of "not logged_in"
InProgressAfterFill_Always(new_type) == TRUE

\* lines 385-387: the flag after the submission, from the type of the new page
InProgressAfterFill(new_type) == new_type \in {"captcha", "login"}

\* the captcha test of lines 331-337 left out
FillGuard_NoCaptchaTest(page_type) ==
  IF page_type # "login" THEN "not_login_page" ELSE "fill"

\* lines 331-345: what auth_fill_login does on a page of this type
FillGuard(page_type) ==
  IF page_type = "captcha" THEN "captcha_detected"
  ELSE IF page_type # "login" THEN "not_login_page"
  ELSE "fill"

\* api_auth_fill_login and lines 322-375: the checks, the form, time.sleep(5)
AuthFillLoginBegin(t) ==
  /\ Starts(t, "fill_login")
  /\ UNCHANGED <<driver, cookie_file, auth_in_progress, last_error>>
  /\ AuthFrame
  /\ LET page_type == PageTypeOf[page]
         guard == FillGuard(page_type)
         typed == (IF page.form.email THEN {"fill_email"} ELSE {})
                    \cup (IF page.form.password THEN {"fill_password"} ELSE {})
         submits == page.form.submit \/ page.form.password
         fills == driver = "live" /\ guard = "fill"
     IN  \* click_raises: the submit button is found and its click raises
         \E o \in {"no_credentials", "driver_raises", "read"}
                    \cup (IF fills /\ page.form.submit THEN {"click_raises"} ELSE {}) :
         \E pg \in (IF o \in {"read", "click_raises"} /\ fills /\ submits
                      THEN SitePages \cup {page} ELSE {page}) :
          /\ page' = pg
          /\ IF o = "no_credentials"
               THEN ReturnsAtOnce(t, "fill_login", {}, Fail("no_credentials"))
             ELSE IF driver = "none"
               THEN ReturnsAtOnce(t, "fill_login", {}, Fail("no_browser"))
             ELSE IF o = "driver_raises"
               THEN ReturnsAtOnce(t, "fill_login", {}, DriverFailure)
             ELSE IF guard # "fill"
               THEN ReturnsAtOnce(t, "fill_login", {},
                      Res(FALSE, guard, FALSE, "absent", page_type, TRUE, NoTankData))
             ELSE IF o = "read" /\ page.form.submit
               THEN GoesToSleep(t, "fill_login", typed \cup {"submit"}, "auth_fill_login")
             ELSE IF ~page.form.password
               \* no click of a submit button, and password_field was never
               \* bound: password_field.send_keys raises UnboundLocalError
               THEN ReturnsAtOnce(t, "fill_login", typed, Fail("unbound_local"))
             \* lines 370-372: the Enter key in the password field
             ELSE GoesToSleep(t, "fill_login", typed \cup {"submit", "fallback"},
                              "auth_fill_login")

\* lines 377-398: save the cookies, look at the new page
AuthFillLoginEnd(t) ==
  /\ pc[t] = "auth_fill_login"
  /\ CanRun(t)
  /\ UNCHANGED <<driver, page, last_error>>
  /\ AuthFrame
  /\ Respond(t)
  \* ck_ok: _save_cookies wrote the file (its failure is logged inside it);
  \* drv_ok: driver.page_source of line 383 answers
  /\ \E ck_ok \in BOOLEAN :
     \E drv_ok \in BOOLEAN :
     \E cookies \in (IF ck_ok THEN CookieJars ELSE {{}}) :
      /\ cookie_file' = SaveCookies(driver, ck_ok, cookies, cookie_file)
      /\ IF ~drv_ok
           THEN /\ UNCHANGED auth_in_progress
                /\ call' = [call EXCEPT
                         !.done = TRUE,
                         !.eff = @ \cup (IF ck_ok THEN {"save_cookies"} ELSE {}),
                         !.res = DriverFailure]
           ELSE LET new_type == PageTypeOf[page]
                    in_progress == InProgressAfterFill(new_type)
                IN  /\ auth_in_progress' = in_progress
                    /\ call' = [call EXCEPT
                         !.done = TRUE,
                         !.eff = @ \cup (IF ck_ok THEN {"save_cookies"} ELSE {}),
                         !.res = Res(TRUE, "", FALSE, IF in_progress THEN "no" ELSE "yes",
                                     new_type, TRUE, NoTankData)]

\* a finish that looks at the page: the flag is kept on a captcha or login page
InProgressAfterFinish_Verifies(old, page_type) ==
  old /\ page_type \in {"captcha", "login"}

\* line 402: the flag finish_auth leaves
InProgressAfterFinish(old, page_type) == FALSE

\* api_auth_finish, finish_auth
FinishAuth(t) ==
  /\ Starts(t, "finish")
  /\ auth_in_progress' = InProgressAfterFinish(auth_in_progress, PageTypeOf[page])
  /\ \E drv_ok \in (IF driver = "live" THEN BOOLEAN ELSE {FALSE}) :
     \E cookies \in (IF drv_ok THEN CookieJars ELSE {{}}) :
       /\ cookie_file' = SaveCookies(driver, drv_ok, cookies, cookie_file)
       /\ ReturnsAtOnce(t, "finish", IF drv_ok THEN {"save_cookies"} ELSE {},
                        Res(TRUE, "", FALSE, "absent", "absent", FALSE, NoTankData))
  /\ UNCHANGED <<driver, page, last_error>>
  /\ AuthFrame

\* api_auth_screenshot
ApiScreenshot(t) ==
  /\ Starts(t, "screenshot")
  /\ \E drv_ok \in (IF driver = "live" THEN BOOLEAN ELSE {FALSE}) :
       ReturnsAtOnce(t, "screenshot", {},
         IF Screenshot(driver, drv_ok)
           THEN Res(TRUE, "", FALSE, "absent", "absent", TRUE, NoTankData)
           ELSE Fail("no_screenshot"))
  /\ UNCHANGED <<driver, page, cookie_file, auth_in_progress, last_error>>
  /\ AuthFrame

(***************************************************************************)
(* Status, history, health, config                                         *)
(***************************************************************************)
\* from_dict leaving the timestamp out: __init__ stamps the reading anew
FromDict_Restamps(data) ==
  TankData(data.litres, data.percent, data.capacity, data.level_name,
           data.timestamp + 1)

\* TankData.from_dict(entry).to_dict(): the five fields of the entry (the
\* entries _save_history writes have all five, with a timestamp; other keys,
\* as older versions wrote them, are dropped)
FromDict(data) ==
  TankData(data.litres, data.percent, data.capacity, data.level_name,
           data.timestamp)

\* get_last_data without the seed of lines 725-733
GetLastData_MemoryOnly(last, history, io_ok) == last

\* get_last_data: the reading it returns (it is kept in _last_tank_data too).
\* io_ok: the history file can be read; when it cannot, the exception is
\* passed over (lines 732-734)
GetLastData(last, history, io_ok) ==
  IF last # NoTankData THEN last
  ELSE IF io_ok /\ Len(history) > 0 THEN FromDict(history[Len(history)])
  ELSE NoTankData

\* the file access of get_last_data, in the record of the call (a missing file
\* and an empty one give the same answer and are not told apart)
LastDataEff(last, history, io_ok) ==
  IF last # NoTankData \/ Len(history) = 0 THEN {}
  ELSE IF io_ok THEN {"read_history"}
  ELSE {"read_history", "read_failed"}

\* get_history: history[-limit:]
GetHistory(history, limit) ==
  LET n == Len(history)
      from == IF limit = 0 THEN 1
              ELSE IF limit > 0 THEN (IF n - limit < 0 THEN 0 ELSE n - limit) + 1
              ELSE (IF 0 - limit > n THEN n ELSE 0 - limit) + 1
  IN  SubSeq(history, from, n)

\* api_get_history asks for 100 readings
ApiHistoryLimit == 100

ReadFrame == UNCHANGED <<driver, page, cookie_file, history_file,
                         auth_in_progress, last_error, config, user_capacity, clock, shutdown>>

ApiGetStatus(t) ==
  /\ Starts(t, "status")
  /\ \E io_ok \in (IF last_tank_data = NoTankData /\ Len(history_file) > 0
                    THEN BOOLEAN ELSE {TRUE}) :
     LET data == GetLastData(last_tank_data, history_file, io_ok)
     IN  /\ last_tank_data' = data
         /\ ReturnsAtOnce(t, "status", LastDataEff(last_tank_data, history_file, io_ok),
              IF data # NoTankData
                THEN Res(TRUE, "", FALSE, "absent", "absent", FALSE, data)
                ELSE Fail("no_data_yet"))
  /\ ReadFrame

ApiGetHistory(t) ==
  /\ Starts(t, "history")
  /\ ReturnsAtOnce(t, "history", {},
       [Res(TRUE, "", FALSE, "absent", "absent", FALSE, NoTankData)
          EXCEPT !.history = GetHistory(history_file, ApiHistoryLimit)])
  /\ UNCHANGED last_tank_data
  /\ ReadFrame

ApiHealth(t) ==
  /\ Starts(t, "health")
  /\ \E io_ok \in (IF last_tank_data = NoTankData /\ Len(history_file) > 0
                    THEN BOOLEAN ELSE {TRUE}) :
     LET data == GetLastData(last_tank_data, history_file, io_ok)
     IN  /\ last_tank_data' = data
         /\ ReturnsAtOnce(t, "health", LastDataEff(last_tank_data, history_file, io_ok),
              Res(TRUE, "", FALSE, IF auth_in_progress THEN "in_progress" ELSE "absent",
                  "absent", FALSE, data))
  /\ ReadFrame

ApiSetConfig(t) ==
  /\ Starts(t, "config")
  /\ \E body \in ConfigBodies :
       /\ config' = MergeConfig(config, body)
       /\ call' = MkCall(t, "config", Waited(t), config'.mqtt_enabled, {"save_config"},
                         TRUE, Res(TRUE, "", FALSE, "absent", "absent", FALSE, NoTankData))
  /\ Respond(t)
  /\ UNCHANGED <<driver, page, cookie_file, history_file, auth_in_progress,
                 last_error, last_tank_data, user_capacity, clock, shutdown>>

(***************************************************************************)
(* The program                                                             *)
(***************************************************************************)
Next ==
  \/ \E t \in Fg : Arrive(t)
  \/ LoopWake
  \/ LoopIter
  \/ \E t \in Tasks : FetchStep(t)
  \/ \E t \in Fg : ApiRefresh(t)
  \/ \E t \in Fg : StartAuthBegin(t)
  \/ \E t \in Fg : StartAuthEnd(t)
  \/ \E t \in Fg : AuthClickBegin(t)
  \/ \E t \in Fg : AuthClickEnd(t)
  \/ \E t \in Fg : AuthTypeBegin(t)
  \/ \E t \in Fg : AuthTypeEnd(t)
  \/ \E t \in Fg : AuthPressKeyBegin(t)
  \/ \E t \in Fg : AuthPressKeyEnd(t)
  \/ \E t \in Fg : AuthFillLoginBegin(t)
  \/ \E t \in Fg : AuthFillLoginEnd(t)
  \/ \E t \in Fg : FinishAuth(t)
  \/ \E t \in Fg : ApiScreenshot(t)
  \/ \E t \in Fg : ApiGetStatus(t)
  \/ \E t \in Fg : ApiGetHistory(t)
  \/ \E t \in Fg : ApiHealth(t)
  \/ \E t \in Fg : ApiSetConfig(t)
  \/ CleanupCancel
  \/ LoopCancelled
  \/ CleanupClose

Spec == Init /\ [][Next]_vars

(***************************************************************************)
(* The loop next to manual refreshes, changes of the configuration and     *)
(* the shutdown, under the scheduling of asyncio: a blocking sleep         *)
(* returns, a timer fires, and a task that is ready runs (the ready queue  *)
(* is FIFO, so the handlers that keep arriving cannot overtake the loop    *)
(* for ever).                                                              *)
(***************************************************************************)
LoopNext ==
  \/ \E t \in Fg : Arrive(t)
  \/ LoopWake
  \/ LoopIter
  \/ \E t \in Tasks : FetchStep(t)
  \/ \E t \in Fg : ApiRefresh(t)
  \/ \E t \in Fg : ApiSetConfig(t)
  \/ CleanupCancel
  \/ LoopCancelled
  \/ CleanupClose

Fairness ==
  /\ \A t \in Tasks : WF_vars(FetchStep(t))
  /\ SF_vars(LoopWake)
  /\ SF_vars(LoopIter)

LiveSpec == Init /\ [][LoopNext]_vars /\ Fairness

\* on_cleanup: the cancelled task is scheduled by task.cancel() and runs, and
\* on_cleanup goes on after "await task"
ShutdownSpec ==
  Init /\ [][LoopNext]_vars /\ Fairness
       /\ WF_vars(LoopCancelled) /\ WF_vars(CleanupClose)

(***************************************************************************)
(* The classifier on page texts: the browser shows any text made of up to  *)
(* MaxFrags fragments, and /api/auth/type returns its classification.      *)
(***************************************************************************)
ClassifyInit ==
  /\ driver = "live"
  /\ page \in TextPages
  /\ cookie_file = {}
  /\ history_file = <<>>
  /\ auth_in_progress = TRUE
  /\ last_error = "None"
  /\ last_tank_data = NoTankData
  /\ config = EmptyConfig
  /\ user_capacity = 0
  /\ clock = 0
  /\ pc = [t \in Tasks |-> IF t = LoopTask THEN "start" ELSE "idle"]
  /\ call = NoCall
  /\ shutdown = "running"

ClassifyNext ==
  \/ \E t \in Fg : AuthTypeBegin(t)
  \/ \E t \in Fg : AuthTypeEnd(t)

SpecClassify == ClassifyInit /\ [][ClassifyNext]_vars

(***************************************************************************)
(* The history file near its cap: the process starts with a history file   *)
(* of 0, HistoryCap - 1 or HistoryCap readings, and manual refreshes       *)
(* append up to MaxAppends readings.                                       *)
(***************************************************************************)
HistClock0 == MaxReadings - MaxAppends

PrefilledHistory(n) ==
  [i \in 1..n |-> TankData(0, 450, 0, "Medium", HistClock0 - HistoryCap + i)]

HistInit ==
  /\ driver = "none"
  /\ page = BlankPage
  /\ cookie_file = {}
  /\ history_file \in {PrefilledHistory(n) : n \in {0, HistoryCap - 1, HistoryCap}}
  /\ auth_in_progress = FALSE
  /\ last_error = "None"
  /\ last_tank_data = NoTankData
  /\ config = Cfg("T1", Num(1), FALSE)
  /\ user_capacity = 0
  /\ clock = HistClock0
  /\ pc = [t \in Tasks |-> IF t = LoopTask THEN "start" ELSE "idle"]
  /\ call = NoCall
  /\ shutdown = "running"

HistNext ==
  \/ \E t \in Fg : ApiRefresh(t)
  \/ \E t \in Fg : FetchStep(t)

SpecHistory == HistInit /\ [][HistNext]_vars

(***************************************************************************)
(* The remote-control protocol and the manual refresh on their own: the    *)
(* tank id is configured, and the requests come one after the other.       *)
(***************************************************************************)
AuthInit ==
  /\ driver = "none"
  /\ page = BlankPage
  /\ cookie_file = {}
  /\ history_file = <<>>
  /\ auth_in_progress = FALSE
  /\ last_error = "None"
  /\ last_tank_data = NoTankData
  /\ config = Cfg("T1", Num(1), FALSE)
  /\ user_capacity = 0
  /\ clock = 0
  /\ pc = [t \in Tasks |-> IF t = LoopTask THEN "start" ELSE "idle"]
  /\ call = NoCall
  /\ shutdown = "running"

AuthNext ==
  \/ \E t \in Fg : ApiRefresh(t)
  \/ \E t \in Fg : FetchStep(t)
  \/ \E t \in Fg : StartAuthBegin(t)
  \/ \E t \in Fg : StartAuthEnd(t)
  \/ \E t \in Fg : AuthClickBegin(t)
  \/ \E t \in Fg : AuthClickEnd(t)
  \/ \E t \in Fg : AuthTypeBegin(t)
  \/ \E t \in Fg : AuthTypeEnd(t)
  \/ \E t \in Fg : AuthPressKeyBegin(t)
  \/ \E t \in Fg : AuthPressKeyEnd(t)
  \/ \E t \in Fg : AuthFillLoginBegin(t)
  \/ \E t \in Fg : AuthFillLoginEnd(t)
  \/ \E t \in Fg : FinishAuth(t)

SpecAuth == AuthInit /\ [][AuthNext]_vars

(***************************************************************************)
(* The extraction on the values of a page: a refresh is in the sleep that  *)
(* follows a navigation (to the primary URL, or to the last alternative),  *)
(* the page shows any combination of found values, and the caller passed   *)
(* any user_capacity.                                                      *)
(***************************************************************************)
ExtractInit ==
  /\ driver = "live"
  /\ page \in ExtractPages
  /\ cookie_file = {}
  /\ history_file = <<>>
  /\ auth_in_progress = FALSE
  /\ last_error = "None"
  /\ last_tank_data = NoTankData
  /\ config = Cfg("T1", Num(1), FALSE)
  /\ user_capacity \in UserCapacities
  /\ clock = 0
  /\ \E p \in {"fetch0", "fetch3"} :
        pc = [t \in Tasks |-> IF t = LoopTask THEN "start"
                              ELSE IF t = 1 THEN p ELSE "idle"]
  /\ call = MkCall(1, "refresh", FALSE, FALSE,
                   IF pc[1] = "fetch0" THEN {"navigate"}
                   ELSE {"navigate", "navigate_alt"}, FALSE, NoRes)
  /\ shutdown = "running"

ExtractNext == \E t \in Fg : FetchStep(t)

SpecExtract == ExtractInit /\ [][ExtractNext]_vars

(***************************************************************************)
(* The scraper object under any sequence of calls of its methods: the      *)
(* manual refresh, the operations of the remote control, and close()       *)
(* (which server.py calls at shutdown only).                               *)
(***************************************************************************)
\* a call of BoilerJuiceScraper.close(): it has no await and returns nothing
CloseCall(t) ==
  /\ t \in Fg
  /\ pc[t] = "idle"
  /\ CanRun(t)
  /\ \E quit_ok \in (IF driver = "live" THEN BOOLEAN ELSE {TRUE}) :
       /\ driver' = Close(driver, quit_ok)
       /\ call' = MkCall(t, "close", FALSE, FALSE, CloseEff(driver, quit_ok), TRUE,
                         Res(TRUE, "", FALSE, "absent", "absent", FALSE, NoTankData))
  \* no browser, no page
  /\ page' = BlankPage
  /\ UNCHANGED <<cookie_file, history_file, auth_in_progress, last_error,
                 last_tank_data, config, user_capacity, clock, pc, shutdown>>

DriverNext ==
  \/ AuthNext
  \/ \E t \in Fg : CloseCall(t)

SpecDriver == AuthInit /\ [][DriverNext]_vars

(***************************************************************************)
(* The last known reading after a cold start: the process starts with a    *)
(* history file (empty, or filled by an earlier run), and status and       *)
(* health requests come between the manual refreshes.                      *)
(***************************************************************************)
StatusNext ==
  \/ HistNext
  \/ \E t \in Fg : ApiGetStatus(t)
  \/ \E t \in Fg : ApiHealth(t)

SpecStatus == HistInit /\ [][StatusNext]_vars

(***************************************************************************)
(* The loop and the manual refresh with MQTT enabled: every successful     *)
(* fetch is followed by a publish, which may fail.                         *)
(***************************************************************************)
PublishInit ==
  /\ driver = "none"
  /\ page = BlankPage
  /\ cookie_file = {}
  /\ history_file = <<>>
  /\ auth_in_progress = FALSE
  /\ last_error = "None"
  /\ last_tank_data = NoTankData
  /\ config = Cfg("T1", Num(1), TRUE)
  /\ user_capacity = 0
  /\ clock = 0
  /\ pc = [t \in Tasks |-> IF t = LoopTask THEN "start" ELSE "idle"]
  /\ call = NoCall
  /\ shutdown = "running"

PublishNext ==
  \/ \E t \in Fg : Arrive(t)
  \/ LoopWake
  \/ LoopIter
  \/ \E t \in Tasks : FetchStep(t)
  \/ \E t \in Fg : ApiRefresh(t)

SpecPublish == PublishInit /\ [][PublishNext]_vars

(***************************************************************************)
(* The history file under every call that may reach it: the process       *)
(* starts with a history file (empty, or filled by an earlier run), and    *)
(* the manual refresh, the queries, the auth flow, the screenshot and      *)
(* close() are called in any order.                                        *)
(***************************************************************************)
LogInit ==
  /\ driver = "none"
  /\ page = BlankPage
  /\ cookie_file = {}
  /\ history_file \in {PrefilledHistory(n) : n \in {0, 2}}
  /\ auth_in_progress = FALSE
  /\ last_error = "None"
  /\ last_tank_data = NoTankData
  /\ config = Cfg("T1", Num(1), FALSE)
  /\ user_capacity = 0
  /\ clock = 0
  /\ pc = [t \in Tasks |-> IF t = LoopTask THEN "start" ELSE "idle"]
  /\ call = NoCall
  /\ shutdown = "running"

LogNext ==
  \/ DriverNext
  \/ \E t \in Fg : ApiGetStatus(t)
  \/ \E t \in Fg : ApiGetHistory(t)
  \/ \E t \in Fg : ApiHealth(t)
  \/ \E t \in Fg : ApiScreenshot(t)

SpecLog == LogInit /\ [][LogNext]_vars

(***************************************************************************)
(* The loop, the manual refresh, changes of the configuration and the      *)
(* shutdown with a tank capacity in the config file (api_set_config        *)
(* stores no such key: the file was written by other means).               *)
(***************************************************************************)
CapacityInit ==
  /\ driver = "none"
  /\ page = BlankPage
  /\ cookie_file = {}
  /\ history_file = <<>>
  /\ auth_in_progress = FALSE
  /\ last_error = "None"
  /\ last_tank_data = NoTankData
  /\ config = [tank_id |-> "T1", refresh_interval |-> Num(1),
               mqtt_enabled |-> FALSE, tank_capacity |-> 10000]
  /\ user_capacity = 0
  /\ clock = 0
  /\ pc = [t \in Tasks |-> IF t = LoopTask THEN "start" ELSE "idle"]
  /\ call = NoCall
  /\ shutdown = "running"

SpecCapacity == CapacityInit /\ [][LoopNext]_vars

(***************************************************************************)
(* The recent-window query: get_history called with any limit (the         *)
(* handler api_get_history passes 100, the default of the parameter is     *)
(* 50), between manual refreshes, on a history file an earlier run may     *)
(* have filled.                                                            *)
(***************************************************************************)
\* a call of BoilerJuiceScraper.get_history(limit): it has no await.  io_ok:
\* the file can be read; when it cannot, the exception is passed over and
\* the answer is [] (lines 743-745)
GetHistoryCall(t) ==
  /\ t \in Fg
  /\ pc[t] = "idle"
  /\ CanRun(t)
  /\ \E limit \in (0 .. MaxSmall) \cup {50, ApiHistoryLimit} :
     \E io_ok \in (IF Len(history_file) > 0 THEN BOOLEAN ELSE {TRUE}) :
       LET answer == IF io_ok THEN GetHistory(history_file, limit) ELSE <<>>
           res == [Res(TRUE, "", FALSE, "absent", "absent", FALSE, NoTankData)
                     EXCEPT !.history = answer]
       IN  call' = MkCall(t, "get_history", FALSE, FALSE,
                          IF io_ok THEN {} ELSE {"read_failed"}, TRUE,
                          [k \in DOMAIN res \cup {"limit"} |->
                             IF k = "limit" THEN limit ELSE res[k]])
  /\ UNCHANGED <<driver, page, cookie_file, history_file, auth_in_progress,
                 last_error, last_tank_data, config, user_capacity, clock, pc,
                 shutdown>>

WindowNext ==
  \/ HistNext
  \/ \E t \in Fg : ApiGetHistory(t)
  \/ \E t \in Fg : GetHistoryCall(t)

SpecWindow == LogInit /\ [][WindowNext]_vars

(***************************************************************************)
(* The strategies of the extraction: a refresh is in the sleep that        *)
(* follows a navigation, and the page shows any combination of attribute,  *)
(* selector values, visible text and script data.                          *)
(***************************************************************************)
StrategyInit ==
  /\ driver = "live"
  /\ page \in StrategyPages
  /\ cookie_file = {}
  /\ history_file = <<>>
  /\ auth_in_progress = FALSE
  /\ last_error = "None"
  /\ last_tank_data = NoTankData
  /\ config = Cfg("T1", Num(1), FALSE)
  /\ user_capacity \in {0, 10000}
  /\ clock = 0
  /\ \E p \in {"fetch0", "fetch3"} :
        pc = [t \in Tasks |-> IF t = LoopTask THEN "start"
                              ELSE IF t = 1 THEN p ELSE "idle"]
  /\ call = MkCall(1, "refresh", FALSE, FALSE,
                   IF pc[1] = "fetch0" THEN {"navigate"}
                   ELSE {"navigate", "navigate_alt"}, FALSE, NoRes)
  /\ shutdown = "running"

SpecStrategy == StrategyInit /\ [][ExtractNext]_vars

(***************************************************************************)
(* Properties of the program                                               *)
(***************************************************************************)
\* the calls that put input into the browser or write the cookie file
InputEff == {"click", "type", "key", "fill_email", "fill_password", "submit"}

\* C1: at most one browser-driving operation (fetch, start, click, type, key,
\* fill) has begun and not finished, whatever the interleaving of the loop and
\* the foreground requests.
C1_AtMostOneInFlight == Cardinality(InFlight) <= 1

\* a request that waited for the thread while an operation was in flight has
\* begun its own operation
C1_Witness ==
  /\ call.queued
  /\ call.kind \in BrowserKinds
  /\ ~call.done
  /\ InFlight # {}

\* C2: a request that tries to drive the browser while another operation is in
\* flight gets the busy result (success false, "busy") and touches nothing.
C2_SecondGetsBusy ==
  (call.queued /\ call.kind \in BrowserKinds) =>
    /\ call.eff = {}
    /\ call.done
    /\ ~call.res.success
    /\ call.res.error = "busy"

\* the configuration with which an iteration of the loop fetches
ValidConfig ==
  /\ config.tank_id # ""
  /\ IntervalOf(config).t = "int"
  /\ IntervalOf(config).v > 0

\* C3: an exception in an iteration does not end the loop: while the process
\* is not shutting down, the backoff sleep that follows it ends and a later
\* iteration runs; and if from some point on the configuration stays valid
\* (and there is no shutdown), the loop calls fetch_tank_data again and again.
C3_LoopSurvivesException ==
  /\ [](pc[LoopTask] # "done" \/ shutdown # "running")
  /\ (pc[LoopTask] = "sleep300") ~> (pc[LoopTask] = "ready" \/ shutdown # "running")
  /\ (pc[LoopTask] = "ready") ~> (pc[LoopTask] # "ready" \/ shutdown # "running")
  /\ (<>[](ValidConfig /\ shutdown = "running"))
       => []<><<LoopIter /\ ValidConfig>>_vars

\* the loop sleeps its backoff after an iteration that raised
C3_Witness ==
  /\ pc[LoopTask] = "sleep300"
  /\ call.kind = "loop"
  /\ call.res.error = "loop_exception"
  /\ shutdown = "running"

\* C4: the history never holds more than HistoryCap readings; an append puts
\* the new reading last, removes exactly the oldest one when the file was
\* full (none otherwise) and keeps the others in their order.
C4_HistoryCapped ==
  /\ [](Len(history_file) <= HistoryCap)
  /\ [][history_file' # history_file =>
          LET n == Len(history_file)
              m == Len(history_file')
              drop == IF n = HistoryCap THEN 1 ELSE 0
          IN  /\ m = n + 1 - drop
              /\ history_file'[m] = last_tank_data'
              /\ last_tank_data'.timestamp = clock'
              /\ \A i \in 1..(m - 1) : history_file'[i] = history_file[i + drop]]_vars

\* the file is full and its oldest reading of the start has been removed
C4_Witness ==
  /\ Len(history_file) = HistoryCap
  /\ history_file[1].timestamp > HistClock0 - HistoryCap + 1
  /\ history_file[HistoryCap].timestamp = clock

\* two letters equal up to case
SameLetter(a, b) ==
  a = b \/ \E i \in 1..26 : {a, b} = {UpperAlpha[i], LowerAlpha[i]}

\* keyword occurs in text, case ignored
Occurs(keyword, text) ==
  \E i \in 0..(Len(text) - Len(keyword)) :
    \A j \in 1..Len(keyword) : SameLetter(text[i + j], keyword[j])

\* C5: the classification of a text is captcha iff a captcha keyword occurs in
\* it (case ignored), login iff none does and a login keyword occurs, tank iff
\* neither does and a tank keyword occurs, unknown otherwise.
C5_ClassifierPriority ==
  (call.kind = "type" /\ call.done /\ call.res.success
     /\ call.res.page_type # "error") =>
    LET text == page.html
        ty == call.res.page_type
        c == \E k \in CAPTCHA_INDICATORS : Occurs(k, text)
        l == \E k \in LOGIN_INDICATORS : Occurs(k, text)
        d == \E k \in TANK_INDICATORS : Occurs(k, text)
    IN  /\ ty \in {"captcha", "login", "tank", "unknown"}
        /\ ty = "captcha" <=> c
        /\ ty = "login" <=> (~c /\ l)
        /\ ty = "tank" <=> (~c /\ ~l /\ d)
        /\ ty = "unknown" <=> (~c /\ ~l /\ ~d)

\* a text with a login keyword and an upper-case captcha keyword came out captcha
C5_Witness ==
  /\ call.kind = "type"
  /\ call.done
  /\ call.res.page_type = "captcha"
  /\ page.html = F_email \o F_CAPTCHA

\* C6: auth_fill_login on a challenge page fails with the challenge error, on a
\* page that is neither login nor challenge with the unexpected-page error
\* (unless the credentials are missing or the driver raises), and in both
\* cases nothing is typed or submitted, the cookie file is not written and the
\* flag is unchanged.
C6_FillGuarded ==
  [][\A t \in Fg :
       LET page_type == PageTypeOf[page]
       IN  (/\ call'.kind = "fill_login"
            /\ pc[t] # "auth_fill_login"
            /\ pc'[t] # "queued"
            /\ pc'[LoopTask] = pc[LoopTask]
            /\ driver = "live"
            /\ page_type # "login"
            /\ AuthFillLoginBegin(t)) =>
             /\ call'.done
             /\ ~call'.res.success
             /\ call'.res.error \in
                  {"no_credentials", "exception",
                   IF page_type = "captcha" THEN "captcha_detected"
                   ELSE "not_login_page"}
             /\ call'.eff \cap (InputEff \cup {"save_cookies"}) = {}
             /\ cookie_file' = cookie_file
             /\ auth_in_progress' = auth_in_progress
             /\ page' = page]_vars

\* a fill was refused on a challenge page while the auth flow was in progress
C6_Witness ==
  /\ call.kind = "fill_login"
  /\ call.done
  /\ call.res.error = "captcha_detected"
  /\ call.res.page_type = "captcha"
  /\ call.eff = {}
  /\ auth_in_progress

\* C7: auth_fill_login on a login page (credentials present, the driver
\* answering) submits the form, saves the cookies and decides the flag by the
\* type of the new page alone: logged in (flag false) iff it is tank or
\* unknown, in progress (flag true) iff it is login or captcha.
C7_FillDecidedByNewPage ==
  [][\A t \in Fg :
       /\ (/\ call'.kind = "fill_login"
           /\ driver = "live"
           /\ PageTypeOf[page] = "login"
           /\ call'.res.error \notin {"no_credentials", "exception"}
           /\ AuthFillLoginBegin(t))
            => (pc'[t] = "auth_fill_login" /\ "submit" \in call'.eff)
       /\ (/\ call'.kind = "fill_login"
           /\ call'.res.error # "exception"
           /\ AuthFillLoginEnd(t))
            => LET new_type == PageTypeOf[page']
               IN  /\ call'.res.success
                   /\ "save_cookies" \in call'.eff
                   /\ (~auth_in_progress' /\ call'.res.logged_in = "yes")
                        <=> new_type \in {"tank", "unknown"}
                   /\ (auth_in_progress' /\ call'.res.logged_in = "no")
                        <=> new_type \in {"login", "captcha"}]_vars

\* C8: once the flag has been cleared by a successful fill or by finish, a
\* click, type or key call puts no input into the browser.
C8_NoRelayOnceAuthenticated ==
  [][\A t \in Fg :
       (/\ ~auth_in_progress
        /\ \/ call.kind = "finish"
           \/ call.kind = "fill_login" /\ call.res.logged_in = "yes"
        /\ AuthClickBegin(t) \/ AuthTypeBegin(t) \/ AuthPressKeyBegin(t))
         => call'.eff \cap InputEff = {}]_vars

\* C9 as stated: start_auth leaves the flag set on a captcha or login page and
\* cleared on a page that is neither.
C9_StartSelectsState ==
  (call.kind = "start" /\ call.done /\ call.res.success
     /\ call.res.page_type \in {"captcha", "login", "tank", "unknown"}) =>
    (auth_in_progress <=> call.res.page_type \in {"captcha", "login"})

\* C9: start_auth leaves the flag set whatever page the login URL shows (and
\* when it fails), and a successful start returns the classification.
C9_StartSetsInProgress ==
  call.kind = "start" =>
    /\ auth_in_progress
    /\ (call.done /\ call.res.success) =>
         call.res.page_type \in {"captcha", "login", "tank", "unknown", "error"}

\* start_auth came out on a tank page, and the flag is set
C9_Witness ==
  /\ call.kind = "start"
  /\ call.done
  /\ call.res.success
  /\ call.res.page_type = "tank"
  /\ auth_in_progress

\* C10 as stated: the flag goes from false to true only in start_auth.
C10_OnlyStartSets ==
  [][(~auth_in_progress /\ auth_in_progress') =>
       \E t \in Fg : StartAuthBegin(t)]_vars

\* C10: the flag goes from false to true only in start_auth or at the end of an
\* auth_fill_login whose new page is login or captcha; the relay calls, fetch,
\* screenshot and finish never set it; the files hold cookies, readings and
\* settings, never the flag.
C10_OnlyStartOrFillSets ==
  /\ [][(~auth_in_progress /\ auth_in_progress') =>
          \/ \E t \in Fg : StartAuthBegin(t)
          \/ \E t \in Fg : /\ AuthFillLoginEnd(t)
                           /\ PageTypeOf[page] \in {"login", "captcha"}]_vars
  /\ [](/\ cookie_file \in CookieJars
        /\ DOMAIN config = {"tank_id", "refresh_interval", "mqtt_enabled"}
        /\ \A i \in 1..Len(history_file) :
             DOMAIN history_file[i] =
               {"litres", "percent", "capacity", "level_name", "timestamp"})

\* a fill ended on a login or captcha page and left the flag set
C10_Witness ==
  /\ call.kind = "fill_login"
  /\ call.done
  /\ call.res.success
  /\ call.res.logged_in = "no"
  /\ auth_in_progress

ReturnedErrors ==
  {"exception", "no_browser", "no_credentials", "captcha_detected",
   "not_login_page", "unbound_local", "no_tank_id", "captcha_required",
   "session_expired", "no_data"}

\* the methods of C12: the auth steps and the fetch
StepKinds == BrowserKinds \cup {"finish"}

C13_AuthPageAborts ==
  [][\A t \in Fg :
       (/\ pc[t] = "fetch0"
        /\ PageTypeOf[page] \in {"captcha", "login"}
        /\ call'.res.error # "exception"
        /\ FetchStep(t)) =>
         /\ call'.done
         /\ pc'[t] = "idle"
         /\ ~call'.res.success
         /\ call'.res.needs_auth
         /\ call'.res.error =
              (IF PageTypeOf[page] = "captcha" THEN "captcha_required"
               ELSE "session_expired")
         /\ call'.res.data = NoTankData
         /\ call'.eff = call.eff
         /\ page' = page
         /\ last_tank_data' = last_tank_data
         /\ history_file' = history_file
         /\ cookie_file' = cookie_file
         /\ clock' = clock]_vars

\* a fetch ended with needs_auth on a login page that shows a percent: nothing
\* was extracted
C13_Witness ==
  /\ call.kind = "refresh"
  /\ call.done
  /\ call.res.needs_auth
  /\ call.res.error = "session_expired"
  /\ PageTypeOf[page] = "login"
  /\ page.found.percent > 0
  /\ last_tank_data = NoTankData
  /\ history_file = <<>>
  /\ "navigate_alt" \notin call.eff

\* C14: a failed fetch (its driver calls answering) carries needs_auth iff it
\* ended on a login or captcha page, on the primary or on an alternative URL.
C14_NeedsAuthIffAuthPage ==
  (/\ call.kind \in {"refresh", "loop"}
   /\ call.done
   /\ call.res.error \in {"captcha_required", "session_expired", "no_data"}) =>
    (call.res.needs_auth <=> PageTypeOf[page] \in {"captcha", "login"})

\* C15: the extraction gives a reading iff a litres value > 0 or a percent > 0
\* is found on the page (the derived values are > 0 only then); the reading
\* has litres > 0 or percent > 0; with neither there is none, also when a
\* capacity is scraped or passed by the caller, and nothing is stored.
C15_ReadingIffLitresOrPercent ==
  [][\A t \in Fg :
       (/\ call'.res.error # "exception"
        /\ ~(pc[t] = "fetch0" /\ PageTypeOf[page] \in {"captcha", "login"})
        /\ FetchStep(t)) =>
         LET some == page.found.litres > 0 \/ page.found.percent > 0
             data == call'.res.data
         IN  /\ call'.res.success <=> some
             /\ some => (data.litres > 0 \/ data.percent > 0)
             /\ some => last_tank_data' = data
             /\ ~some => data = NoTankData
             /\ ~some => last_tank_data' = last_tank_data
             /\ ~some => history_file' = history_file]_vars

\* a fetch ended without data on a page where only a capacity is known
C15_Witness ==
  /\ call.kind = "refresh"
  /\ call.done
  /\ call.res.error = "no_data"
  /\ page.found.percent = 0
  /\ page.found.litres = 0
  /\ page.found.scraped_capacity > 0
  /\ user_capacity > 0
  /\ last_tank_data = NoTankData

\* the readings the program holds
Readings ==
  ({last_tank_data, call.res.data} \cup {history_file[i] : i \in 1..Len(history_file)})
    \ {NoTankData}

\* C16: for every reading, level_name is High iff percent >= 60, Medium iff
\* 30 <= percent < 60, Low iff percent < 30.
C16_LevelBands ==
  \A r \in Readings :
    /\ r.level_name \in {"High", "Medium", "Low"}
    /\ r.level_name = "High" <=> r.percent >= 600
    /\ r.level_name = "Medium" <=> (300 <= r.percent /\ r.percent < 600)
    /\ r.level_name = "Low" <=> r.percent < 300

\* readings at the limits of the bands: 60 % is High
C16_Witness ==
  /\ call.done
  /\ call.res.success
  /\ call.res.data.percent = 600
  /\ call.res.data.level_name = "High"
  /\ history_file # <<>>

\* the absolute value
Abs(x) == IF x < 0 THEN 0 - x ELSE x

\* C17: with a percent p in (0, 100] found, no litres found and a capacity
\* c > 0 passed by the caller, the reading has litres = c * p / 100 rounded to
\* one decimal, percent p, capacity c and the band of p; 45 % of 1000 litres
\* gives 450.0 litres, Medium.
C17_LitresFromPercent ==
  (/\ call.done
   /\ call.res.success
   /\ page.found.litres = 0
   /\ page.found.percent > 0
   /\ page.found.percent <= 1000
   /\ user_capacity > 0) =>
    LET r == call.res.data
        p == page.found.percent
        c == user_capacity
    IN  /\ r.percent = p
        /\ r.capacity = c
        \* r.litres is a multiple of 0.1 nearest to c * p / 100
        /\ 2 * Abs(1000 * r.litres - c * p) <= 1000
        /\ r.level_name = (IF p >= 600 THEN "High"
                           ELSE IF p >= 300 THEN "Medium" ELSE "Low")
        /\ (p = 450 /\ c = 10000) => (r.litres = 4500 /\ r.level_name = "Medium")

\* 45 % found, 1000 litres passed: 450.0 litres, Medium
C17_Witness ==
  /\ call.done
  /\ call.res.success
  /\ page.found = [percent |-> 450, litres |-> 0, scraped_capacity |-> 10040]
  /\ user_capacity = 10000
  /\ call.res.data.litres = 4500
  /\ call.res.data.capacity = 10000
  /\ call.res.data.level_name = "Medium"

\* the pipeline on a triple of which one value is unknown (0)
ReDerive(litres, percent, capacity) ==
  ExtractTankData(
    MkPage(<<>>, NoForm,
           [percent |-> percent, litres |-> litres, scraped_capacity |-> capacity]),
    0, 0)

\* the capacity known before the derivation
KnownCapacity ==
  IF user_capacity > 0 THEN user_capacity ELSE page.found.scraped_capacity

\* the percent and the capacity were known, the litres derived
LitresDerived ==
  /\ call.done /\ call.res.success
  /\ page.found.litres = 0 /\ page.found.percent > 0 /\ KnownCapacity > 0
  /\ call.res.data.litres > 0

\* the litres and the capacity were known, the percent derived
PercentDerived ==
  /\ call.done /\ call.res.success
  /\ page.found.percent = 0 /\ page.found.litres > 0 /\ KnownCapacity > 0
  /\ call.res.data.percent > 0

\* the litres and the percent were known, the capacity derived
CapacityDerived ==
  /\ call.done /\ call.res.success
  /\ KnownCapacity = 0 /\ page.found.litres > 0 /\ page.found.percent > 0
  /\ call.res.data.capacity > 0

\* C18 as stated: a known value derived again from the triple of the reading
\* is the original within 0.1 (litres, percent) or within 1 litre (capacity).
C18_RoundTripToDecimals ==
  LET r == call.res.data
      l == page.found.litres
      p == page.found.percent
      c == KnownCapacity
  IN  /\ LitresDerived =>
           /\ Abs(ReDerive(r.litres, 0, c).percent - p) <= 1
           /\ Abs(ReDerive(r.litres, p, 0).capacity - c) <= 10
      /\ PercentDerived =>
           /\ Abs(ReDerive(0, r.percent, c).litres - l) <= 1
           /\ Abs(ReDerive(l, r.percent, 0).capacity - c) <= 10
      /\ CapacityDerived =>
           /\ Abs(ReDerive(0, p, r.capacity).litres - l) <= 1
           /\ Abs(ReDerive(l, 0, r.capacity).percent - p) <= 1

\* C18: a known value derived again from the triple of the reading is the
\* original up to its own rounding plus the rounding of the derived value
\* carried through the relation litres = capacity * percent / 100.  In
\* litres and percent points, with capacity c, percent p of the triple:
\*   litres derived:   |percent' - percent| <= 0.05 + 5 / c
\*                     |capacity' - capacity| <= 0.5 + 5 / p
\*   percent derived:  |litres' - litres| <= 0.05 + c / 2000
\*                     |capacity' - capacity| <= 0.5 + c / (20 p)
\*   capacity derived: |litres' - litres| <= 0.05 + p / 200
\*                     |percent' - percent| <= 0.05 + p / (2 c)
\* (the values below are tenths).
C18_RoundTripCarriesError ==
  LET r == call.res.data
      l == page.found.litres
      p == page.found.percent
      c == KnownCapacity
  IN  /\ LitresDerived =>
           /\ 2 * c * Abs(ReDerive(r.litres, 0, c).percent - p) <= c + 1000
           /\ 2 * p * Abs(ReDerive(r.litres, p, 0).capacity - c) <= 10 * p + 1000
      /\ PercentDerived =>
           /\ 2000 * Abs(ReDerive(0, r.percent, c).litres - l) <= c + 1000
           /\ 2 * r.percent * Abs(ReDerive(l, r.percent, 0).capacity - c)
                <= 10 * r.percent + c
      /\ CapacityDerived =>
           /\ 2000 * Abs(ReDerive(0, p, r.capacity).litres - l) <= 1000 + 10 * p
           /\ 2 * r.capacity * Abs(ReDerive(l, 0, r.capacity).percent - p)
                <= r.capacity + 10 * p

\* 333.3 litres in a tank of 1000 litres: 33.3 %, from which the litres come
\* back as 333.0
C18_Witness ==
  /\ PercentDerived
  /\ page.found.litres = 3333
  /\ KnownCapacity = 10000
  /\ call.res.data.percent = 333
  /\ ReDerive(0, call.res.data.percent, KnownCapacity).litres = 3330

\* C19: the capacity of the reading is the one passed by the caller whenever
\* that is > 0, whatever capacity is scraped; without it (0 or less) it is the
\* scraped capacity, or with none scraped the one derived from litres and
\* percent (0 when one of them is missing).
C19_CallerCapacityWins ==
  (call.done /\ call.res.success) =>
    LET r == call.res.data
        l == page.found.litres
        p == page.found.percent
        scraped == page.found.scraped_capacity
    IN  /\ user_capacity > 0 => r.capacity = user_capacity
        /\ (user_capacity <= 0 /\ scraped # 0) => r.capacity = scraped
        /\ (user_capacity <= 0 /\ scraped = 0 /\ l > 0 /\ p > 0) =>
             2 * Abs(p * r.capacity - 1000 * l) <= 10 * p
        /\ (user_capacity <= 0 /\ scraped = 0 /\ ~(l > 0 /\ p > 0)) =>
             r.capacity = 0

\* the page shows a capacity of 1004 litres, the caller passed 1000
C19_Witness ==
  /\ call.done
  /\ call.res.success
  /\ user_capacity = 10000
  /\ page.found.scraped_capacity = 10040
  /\ page.found.litres > 0
  /\ call.res.data.capacity = 10000

\* C20: every reading has litres >= 0, 0 <= percent <= 100 and capacity >= 0.
C20_ReadingInRange ==
  \A r \in Readings :
    /\ r.litres >= 0
    /\ 0 <= r.percent /\ r.percent <= 1000
    /\ r.capacity >= 0

\* the reading _extract_tank_data gives on the page the browser shows
ExtractedNow == ExtractTankData(page, user_capacity, clock + 1)

\* C21: an alternative URL is visited only from the URL before it in the
\* list, and only when the extraction on that URL's page gave nothing (and the
\* primary page was no auth page); a page that gives a reading ends the fetch
\* with no further navigation; the failure "could not extract" (with the text
\* preview) is returned only on the last alternative URL, and it leaves the
\* last reading, the history file and the cookie file as they were.
C21_FallbackOrder ==
  [][\A t \in Fg :
       LET p == pc[t]
           q == pc'[t]
       IN  /\ (q \in {"fetch1", "fetch2", "fetch3"} /\ q # p) =>
                /\ p \in FetchPcs
                /\ FetchIdx(q) = FetchIdx(p) + 1
                /\ ExtractedNow = NoTankData
                /\ p = "fetch0" => PageTypeOf[page] \notin {"captcha", "login"}
                /\ call'.eff = call.eff \cup {"navigate_alt"}
                /\ ~call'.done
                /\ last_tank_data' = last_tank_data
                /\ history_file' = history_file
                /\ cookie_file' = cookie_file
           /\ (p \in FetchPcs /\ q # p /\ ExtractedNow # NoTankData) =>
                /\ q = "idle"
                /\ call'.done
                /\ "navigate_alt" \notin call'.eff \ call.eff
                /\ page' = page
                /\ call'.res.success => call'.res.data = ExtractedNow
           /\ (p \in FetchPcs /\ call'.done /\ call'.res.error = "no_data") =>
                /\ p = "fetch3"
                /\ ExtractedNow = NoTankData
                /\ last_tank_data' = last_tank_data
                /\ history_file' = history_file
                /\ cookie_file' = cookie_file]_vars

\* a refresh went through the primary and the alternative URLs and failed,
\* after an earlier one had stored a reading and cookies: they are still there
C21_Witness ==
  /\ call.kind = "refresh"
  /\ call.done
  /\ call.res.error = "no_data"
  /\ "navigate_alt" \in call.eff
  /\ last_tank_data # NoTankData
  /\ Len(history_file) = 1
  /\ history_file[1] = last_tank_data
  /\ cookie_file = {"sid"}

\* h2 is h with the one entry d appended (the oldest entry of a full log dropped)
AppendedOne(h, h2, d) ==
  /\ Len(h2) >= 1
  /\ h2[Len(h2)] = d
  /\ SubSeq(h2, 1, Len(h2) - 1) = (IF Len(h) >= HistoryCap THEN Tail(h) ELSE h)

\* task t's fetch_tank_data returns in this step
FetchReturns(t) == pc[t] \in FetchPcs /\ pc'[t] \notin FetchPcs /\ call'.done

\* C22 (as stated): every fetch that returns success has appended exactly one
\* entry, equal to the reading it returns, to the history file, and every fetch
\* that returns failure has appended none.
C22_SuccessAppendsOne ==
  [][\A t \in Tasks :
       FetchReturns(t) =>
         IF call'.res.success
           THEN AppendedOne(history_file, history_file', call'.res.data)
           ELSE history_file' = history_file]_vars

\* C22 (amended): a fetch that returns success keeps the reading it returns as
\* the last reading and makes one append of it: the history file then ends
\* with that reading, after the earlier ones (less the oldest of a full log),
\* unless the file could not be read or written, and then the file is as it
\* was and the fetch returns success all the same; a fetch that returns failure
\* leaves the file as it was, and so does every step that is not the return of
\* a fetch.
C22_SuccessAppendsUnlessIoFails ==
  [][/\ \A t \in Tasks :
          FetchReturns(t) =>
            /\ call'.res.success =>
                 /\ call'.res.data # NoTankData
                 /\ last_tank_data' = call'.res.data
                 /\ \/ AppendedOne(history_file, history_file', call'.res.data)
                    \/ history_file' = history_file
                 /\ "save_history" \in call'.eff =>
                      AppendedOne(history_file, history_file', call'.res.data)
            /\ ~call'.res.success =>
                 /\ history_file' = history_file
                 /\ "save_history" \notin call'.eff
     /\ (\A t \in Tasks : ~FetchReturns(t)) => history_file' = history_file]_vars

\* a refresh returned a reading and appended it to a history file that was
\* full: the reading is its last entry, and the file still holds HistoryCap
C22_Witness ==
  /\ call.kind = "refresh"
  /\ call.done
  /\ call.res.success
  /\ "save_history" \in call.eff
  /\ Len(history_file) = HistoryCap
  /\ history_file[HistoryCap] = call.res.data
  /\ history_file[HistoryCap - 1] # call.res.data

\* a handler starts in this step (the requests of these specifications come
\* one after the other)
NewCall == call.done /\ call' # call

\* task t's auth_fill_login returns from the sleep that follows its submission
FillReturns(t) == pc[t] = "auth_fill_login" /\ pc'[t] # "auth_fill_login"

\* the cookies are loaded when, and only when, a browser is created
LoadedOncePerBrowser ==
  /\ (NewCall /\ "load_cookies" \in call'.eff) =>
       /\ driver = "none"
       /\ driver' = "live"
       /\ "create_driver" \in call'.eff
  /\ (driver = "none" /\ driver' = "live") =>
       /\ NewCall
       /\ "load_cookies" \in call'.eff

\* C23 (as stated): the cookie file is written after every successful fetch
\* and after every submission of auth_fill_login, and the cookies are loaded
\* exactly once per created browser.
C23_CookiesWritten ==
  [][/\ \A t \in Fg :
          /\ (FetchReturns(t) /\ call'.res.success) => "save_cookies" \in call'.eff
          /\ FillReturns(t) => "save_cookies" \in call'.eff
     /\ LoadedOncePerBrowser]_vars

\* C23 (amended): _save_cookies is called after every successful fetch, after
\* every submission of auth_fill_login and by finish_auth, and by nothing
\* else; it writes the cookie file unless the driver or the file fails, and
\* then the file is as it was and the result of the operation is not changed
\* by it.  The cookies are loaded exactly once per created browser.
C23_CookiesWrittenUnlessIoFails ==
  [][/\ \A t \in Fg :
          /\ (FetchReturns(t) /\ call'.res.success) =>
               \/ "save_cookies" \in call'.eff
               \/ cookie_file' = cookie_file
          /\ (FetchReturns(t) /\ ~call'.res.success) => "save_cookies" \notin call'.eff
          /\ FillReturns(t) =>
               \/ "save_cookies" \in call'.eff
               \/ cookie_file' = cookie_file
     /\ cookie_file' # cookie_file =>
          /\ "save_cookies" \in call'.eff
          /\ driver = "live"
          /\ \/ \E t \in Fg : FetchReturns(t) /\ call'.res.success
             \/ \E t \in Fg : FillReturns(t)
             \/ call'.kind = "finish"
     /\ LoadedOncePerBrowser]_vars

\* a refresh stored a reading and the cookies of its browser; the browser was
\* closed, and start_auth created a new one: the cookies were loaded again
C23_Witness ==
  /\ call.kind = "start"
  /\ {"create_driver", "load_cookies"} \subseteq call.eff
  /\ driver = "live"
  /\ last_tank_data # NoTankData
  /\ cookie_file = {"sid"}

\* C24: get_last_data (behind /api/status) returns the reading held in memory
\* when there is one; with none in memory it returns the newest entry of the
\* history file and keeps it in memory; it returns none ("No data available
\* yet") only when there is none in memory and the history file is empty,
\* missing or cannot be read.  It never changes the file.
C24_LastKnownValue ==
  [][(NewCall /\ call'.kind = "status") =>
       LET n == Len(history_file)
       IN  /\ history_file' = history_file
           /\ last_tank_data # NoTankData =>
                /\ call'.res.success
                /\ call'.res.data = last_tank_data
                /\ last_tank_data' = last_tank_data
           /\ (last_tank_data = NoTankData /\ n > 0
                 /\ "read_failed" \notin call'.eff) =>
                /\ call'.res.success
                /\ call'.res.data = history_file[n]
                /\ last_tank_data' = history_file[n]
           /\ ~call'.res.success =>
                /\ last_tank_data = NoTankData
                /\ last_tank_data' = NoTankData
                /\ n = 0 \/ "read_failed" \in call'.eff]_vars

\* cold start with a full history file: the status request returned its newest
\* entry, which is now the reading held in memory
C24_Witness ==
  /\ call.kind = "status"
  /\ call.res.success
  /\ "read_history" \in call.eff
  /\ Len(history_file) = HistoryCap
  /\ call.res.data = history_file[HistoryCap]
  /\ last_tank_data = history_file[HistoryCap]

\* C25: a publish that fails after a successful fetch (it returns False, or it
\* raises) changes nothing of the fetch: the caller still holds the successful
\* result with the reading, the reading stays the last one and stays in the
\* history file, api_refresh answers with that result, and the loop goes to
\* the sleep of its interval, not to the 300 s sleep of its except clause.
\* Nothing is published after a fetch that failed.
C25_PublishFailureIsolated ==
  [][\A t \in Tasks :
       FetchReturns(t) =>
         /\ "publish" \in call'.eff => call'.res.success
         /\ "publish_failed" \in call'.eff =>
              /\ call'.res.success
              /\ call'.res.data = ExtractedNow
              /\ last_tank_data' = call'.res.data
              /\ "save_history" \in call'.eff =>
                   AppendedOne(history_file, history_file', call'.res.data)
              /\ IF t = LoopTask
                   THEN pc'[t] = "sleep_interval"
                   ELSE pc'[t] = "idle"]_vars

\* the loop fetched and stored a reading, the publish failed, and the loop is
\* in the sleep of its interval
C25_Witness ==
  /\ call.kind = "loop"
  /\ call.done
  /\ call.res.success
  /\ {"publish_failed", "save_history"} \subseteq call.eff
  /\ pc[LoopTask] = "sleep_interval"
  /\ Len(history_file) = 1
  /\ history_file[1] = call.res.data

\* the loop runs an iteration up to its first await in this step
LoopIterates ==
  /\ pc[LoopTask] \in {"start", "ready"}
  /\ pc'[LoopTask] \notin {"start", "ready", "done"}

\* the iteration called fetch_tank_data / did not call it
FetchInvoked ==
  /\ call'.kind = "loop"
  /\ call'.res.error \notin {"not_configured", "loop_exception"}
  /\ pc'[LoopTask] \in {"fetch0", "sleep_interval"}

FetchNotInvoked ==
  /\ call'.kind = "loop"
  /\ call'.res.error \in {"not_configured", "loop_exception"}
  /\ call'.eff = {}
  /\ driver' = driver
  /\ page' = page

\* C26 (as stated): an iteration that finds the interval or the tank id unset,
\* non-positive or empty does not call fetch_tank_data and sleeps the short
\* backoff (60 s); fetch_tank_data is called only when both are set and the
\* interval is positive.
C26_UnsetSkipsFetch ==
  [][LoopIterates =>
       LET iv == config.refresh_interval
           skip == \/ iv.t = "unset"
                   \/ iv.t = "int" /\ iv.v <= 0
                   \/ config.tank_id = ""
       IN  /\ skip => FetchNotInvoked /\ pc'[LoopTask] = "sleep60"
           /\ FetchInvoked => iv.t = "int" /\ iv.v > 0 /\ config.tank_id # ""]_vars

\* C26 (amended): an interval that is not set counts as 60 minutes.  An
\* iteration calls fetch_tank_data exactly when the tank id is set and the
\* interval (60 when unset) is a positive number; when the interval is a
\* number <= 0 or the tank id is empty it sleeps 60 s without fetching; when
\* the interval is no number the comparison raises and the iteration sleeps
\* the 300 s of the except clause without fetching.
C26_DefaultIntervalFetches ==
  [][LoopIterates =>
       LET iv == config.refresh_interval
           minutes == IF iv.t = "unset" THEN 60 ELSE iv.v
       IN  IF iv.t = "str"
             THEN FetchNotInvoked /\ pc'[LoopTask] = "sleep300"
           ELSE IF minutes <= 0 \/ config.tank_id = ""
             THEN FetchNotInvoked /\ pc'[LoopTask] = "sleep60"
           ELSE FetchInvoked]_vars

\* the tank id is configured and no interval is: the loop is in a fetch
C26_Witness ==
  /\ config.refresh_interval.t = "unset"
  /\ config.tank_id # ""
  /\ call.kind = "loop"
  /\ "navigate" \in call.eff
  /\ pc[LoopTask] = "fetch0"

\* C27: once on_cleanup has cancelled the loop task, the task starts no new
\* iteration (it does not read the configuration, fetch or publish again): from
\* whichever sleep it is in, or from before its next step, it only finishes,
\* and it does finish; scraper.close() is called only after the task has
\* finished, and nothing but close() drops the browser.
C27_CancelStopsLoop ==
  /\ [][/\ shutdown # "running" =>
             /\ pc'[LoopTask] \in {pc[LoopTask], "done"}
             /\ ~LoopIterates
             /\ "navigate" \notin call'.eff
             /\ "publish" \notin call'.eff
        /\ (shutdown # "closed" /\ shutdown' = "closed") => pc[LoopTask] = "done"
        /\ "quit" \in call'.eff \ call.eff =>
             pc[LoopTask] = "done" /\ shutdown = "cancelling"
        /\ (driver = "live" /\ driver' = "none") => pc[LoopTask] = "done"]_vars
  /\ ((shutdown = "cancelling") ~> (pc[LoopTask] = "done"))

\* the loop was cancelled while the interval was no number (its iterations end
\* in the 300 s sleep of the except clause): the task has finished and the
\* browser an earlier iteration created is closed
C27_Witness ==
  /\ shutdown = "closed"
  /\ pc[LoopTask] = "done"
  /\ config.refresh_interval.t = "str"
  /\ driver = "none"
  /\ {"cancel", "quit"} \subseteq call.eff

\* C28: the scraper holds at most one browser handle and _ensure_driver
\* creates a browser only when it holds none: whatever calls came before
\* (fetches, auth operations, close), an operation that finds a handle creates
\* nothing and keeps the handle; one that finds none creates one browser; a
\* creation that fails leaves the handle empty and the operation fails; and
\* only close() drops a handle.
C28_OneBrowser ==
  [][/\ (NewCall /\ "create_driver" \in call'.eff) =>
          /\ driver = "none"
          /\ call'.kind \in {"refresh", "start"}
          /\ IF "load_cookies" \in call'.eff
               THEN driver' = "live"
               ELSE driver' = "none" /\ call'.done /\ ~call'.res.success
     /\ (NewCall /\ driver = "live" /\ call'.kind # "close") =>
          /\ driver' = "live"
          /\ "create_driver" \notin call'.eff
     /\ (driver = "none" /\ driver' = "live") =>
          NewCall /\ {"create_driver", "load_cookies"} \subseteq call'.eff
     /\ (driver = "live" /\ driver' = "none") =>
          NewCall /\ call'.kind = "close"
     /\ ~NewCall => driver' = driver]_vars

\* a refresh found the browser an earlier operation had created (an auth
\* session is in progress): it navigated with it and created none
C28_Witness ==
  /\ call.kind = "refresh"
  /\ "navigate" \in call.eff
  /\ "create_driver" \notin call.eff
  /\ driver = "live"
  /\ auth_in_progress

\* C29: close() always returns, and after it the handle is empty, whether
\* driver.quit() returned or raised; it changes nothing but the handle (the
\* flag of the auth session, the last error, the last reading and the files
\* are as before); and a close() that finds no handle calls nothing and
\* changes nothing.
C29_CloseIdempotent ==
  [][(NewCall /\ call'.kind = "close") =>
       /\ driver' = "none"
       /\ call'.done
       /\ call'.res.success
       /\ call'.eff \subseteq {"quit", "quit_raises"}
       /\ "quit" \in call'.eff <=> driver = "live"
       /\ auth_in_progress' = auth_in_progress
       /\ last_error' = last_error
       /\ last_tank_data' = last_tank_data
       /\ cookie_file' = cookie_file
       /\ history_file' = history_file
       /\ pc' = pc
       /\ driver = "none" =>
            /\ call'.eff = {}
            /\ page' = page]_vars

\* close() was called with no browser left, during an auth session and after
\* a reading had been fetched (so an earlier close() had dropped the browser):
\* it called nothing, and the flag and the reading are still there
C29_Witness ==
  /\ call.kind = "close"
  /\ call.eff = {}
  /\ driver = "none"
  /\ auth_in_progress
  /\ last_tank_data # NoTankData
  /\ cookie_file = {"sid"}

\* C30: during a fetch _extract_tank_data runs only on a page classified
\* "tank": a step of fetch_tank_data that used the outcome of the extraction
\* (it returned the reading, it went on to the next alternative URL, or it
\* gave up with "could not extract") was on a page of that type.
C30_ExtractsOnlyDataPages ==
  [][\A t \in Tasks :
       (/\ pc[t] \in FetchPcs
        /\ pc'[t] # pc[t]
        /\ \/ call'.res.success
           \/ call'.res.error = "no_data"
           \/ pc'[t] \in FetchPcs) =>
         PageTypeOf[page] = "tank"]_vars

\* a step of fetch_tank_data after which a task is at a new position of the
\* fetch: driver.get loaded a page in the shared browser
FetchNavigates ==
  \E t \in Tasks : pc'[t] \in FetchPcs /\ pc'[t] # pc[t]

\* C31: while an auth session is in progress no fetch, of the loop or of a
\* manual refresh, navigates the shared browser.
C31_NoFetchDuringAuth ==
  [][auth_in_progress => ~FetchNavigates]_vars

\* the first value of the sequence that is not 0, or 0
RECURSIVE FirstSuccess(_)
FirstSuccess(vals) ==
  IF vals = <<>> THEN 0
  ELSE IF Head(vals) # 0 THEN Head(vals)
  ELSE FirstSuccess(Tail(vals))

\* per field, the value of the first strategy (attribute or selector, visible
\* text, script data) that gives one
FirstPerField(src) ==
  [percent |-> FirstSuccess(<<src.attr_percent, TextPercent(src.text),
                              src.script.percent>>),
   litres |-> FirstSuccess(<<src.sel_litres, TextLitres(src.text),
                             src.script.litres>>),
   scraped_capacity |-> FirstSuccess(<<src.sel_capacity, TextCapacity(src.text),
                                       src.script.capacity>>)]

\* a step of fetch_tank_data on a page of the strategy check in which no
\* driver call raised
ExtractsOnSrcPage(t) ==
  /\ pc[t] \in FetchPcs
  /\ pc'[t] # pc[t]
  /\ "src" \in DOMAIN page
  /\ call'.res.error # "exception"

\* C32: each of percent, litres and capacity is the value of the first
\* strategy (attribute or selector, then visible text, then script data) that
\* gives a non-zero one, whatever the later strategies and the strategies of
\* the other fields give: the reading is the one step 5 makes of these
\* values.  (An extraction that raises gives no reading.)
C32_FirstSuccessPerField ==
  [][\A t \in Fg :
       ExtractsOnSrcPage(t) =>
         IF Steps1to4Raise(page)
           THEN call'.res.data = NoTankData
           ELSE call'.res.data =
                  ExtractTankData(MkPage(page.html, NoForm, FirstPerField(page.src)),
                                  user_capacity, clock + 1)]_vars

\* a reading whose percent is the attribute's although text and script show
\* others, and whose litres come from the script, no earlier strategy giving any
C32_Witness ==
  /\ call.done
  /\ call.res.success
  /\ "src" \in DOMAIN page
  /\ page.src.attr_percent = 450
  /\ TextPercent(page.src.text) = 300
  /\ page.src.script.percent = 600
  /\ page.src.sel_litres = 0
  /\ TextLitres(page.src.text) = 0
  /\ page.src.script.litres = 5000
  /\ call.res.data.percent = 450
  /\ call.res.data.litres = 5000

\* the visible text has a "<n>%" with n in (0, 100]
HasPercentInRange(text) ==
  \E i \in DOMAIN text :
    text[i].k = "pct" /\ 0 < text[i].v /\ text[i].v <= 1000

\* C33: when the data-percentage attribute gives no percent and the visible
\* text has at least one "<n>%" with n in (0, 100], the extraction gives a
\* reading with a percent in (0, 100], also when an earlier "<n>%" of the
\* text is out of range.
C33_FirstInRangeAccepted ==
  [][\A t \in Fg :
       (/\ ExtractsOnSrcPage(t)
        /\ ~Steps1to4Raise(page)
        /\ page.src.attr_percent = 0
        /\ HasPercentInRange(page.src.text)) =>
         /\ call'.res.success
         /\ 0 < call'.res.data.percent
         /\ call'.res.data.percent <= 1000]_vars

\* C34: the history file changes only in the step in which a fetch returns
\* its reading, and then by that reading put at its end (the oldest dropped
\* beyond HistoryCap): the status, health and history queries, the
\* operations of the auth flow, close() and the fetches that fail leave it
\* as it is.
C34_HistoryOnlyAppended ==
  [][history_file' # history_file =>
       \E t \in Tasks :
         /\ pc[t] \in FetchPcs
         /\ call'.kind \in {"refresh", "loop"}
         /\ call'.done
         /\ call'.res.success
         /\ LET h == Append(history_file, call'.res.data)
            IN  history_file' = IF Len(h) > HistoryCap
                                  THEN SubSeq(h, Len(h) - HistoryCap + 1, Len(h))
                                  ELSE h]_vars

\* the history query has answered with the readings of an earlier run and
\* the one a fetch of this run appended, in a process where an auth session
\* is in progress
C34_Witness ==
  /\ call.kind = "history"
  /\ call.done
  /\ Len(history_file) = 3
  /\ last_tank_data # NoTankData
  /\ history_file[3] = last_tank_data
  /\ call.res.history = history_file
  /\ auth_in_progress
  /\ driver = "live"

\* the newest entry of the history file (None when there is none)
NewestEntry(history) ==
  IF Len(history) = 0 THEN NoTankData ELSE history[Len(history)]

\* C35 as stated: whenever a reading is kept in memory it is the newest entry
\* of the history file, history reads and writes that fail included.
C35_MemoryIsNewestEntry ==
  last_tank_data # NoTankData => last_tank_data = NewestEntry(history_file)

\* C35, amended: a reading kept in memory is the newest entry of the history
\* file, or it is newer than every entry of the file (its write failed); a
\* fetch that wrote the history and a query that read the reading from the
\* file leave the two equal.
C35_MemoryNotBehindLog ==
  /\ [](last_tank_data # NoTankData =>
          \/ last_tank_data = NewestEntry(history_file)
          \/ \A i \in DOMAIN history_file :
               history_file[i].timestamp < last_tank_data.timestamp)
  /\ [][(\/ "save_history" \in call'.eff \ call.eff
         \/ (call'.kind \in {"status", "health"} /\ last_tank_data' # last_tank_data)) =>
          /\ last_tank_data' # NoTankData
          /\ last_tank_data' = NewestEntry(history_file')]_vars

\* a fetch returned a reading whose write failed, after one whose write
\* succeeded: memory holds the new reading, the file ends with the old one
C35_Witness ==
  /\ call.kind = "refresh"
  /\ call.done
  /\ call.res.success
  /\ "save_history" \notin call.eff
  /\ last_tank_data = call.res.data
  /\ Len(history_file) = 1
  /\ NewestEntry(history_file).timestamp = last_tank_data.timestamp - 1

\* the tank capacity the config file holds (0: none)
ConfiguredCapacity ==
  IF "tank_capacity" \in DOMAIN config THEN config.tank_capacity ELSE 0

\* C36: a fetch of the loop or of a manual refresh passes the configured
\* capacity: when the config holds a capacity > 0, the reading of a
\* successful fetch has that capacity.
C36_ConfiguredCapacityUsed ==
  (/\ call.kind \in {"refresh", "loop"}
   /\ call.done
   /\ call.res.success
   /\ ConfiguredCapacity > 0) =>
     call.res.data.capacity = ConfiguredCapacity

\* the largest of three numbers
Max3(a, b, c) ==
  IF a >= b /\ a >= c THEN a ELSE IF b >= c THEN b ELSE c

\* the distance of litres from capacity * percent / 100 that the rounding of
\* a derived value can leave (all in tenths, scaled by 1000): half a tenth of
\* a litre, half a tenth of a percent of the capacity, or half a litre of
\* capacity at this percent
RoundingTolerance(r) == Max3(500, r.capacity \div 2 + 1, 5 * r.percent)

\* C37: every reading with litres, percent and capacity all > 0 has
\* litres = capacity * percent / 100 within the rounding tolerance, wherever
\* the three values come from.
C37_TripleConsistent ==
  \A r \in Readings :
    (r.litres > 0 /\ r.percent > 0 /\ r.capacity > 0) =>
      Abs(1000 * r.litres - r.capacity * r.percent) <= RoundingTolerance(r)

\* the requests of the remote control that need a browser to act on
RelayKinds == {"screenshot", "click", "type", "key", "fill_login"}

\* the handler of a request of the remote control runs in this step
RelayCalled ==
  /\ call' # call
  /\ call'.kind \in RelayKinds
  /\ \E t \in Fg : pc[t] \in {"idle", "queued"} /\ CanRun(t)

\* C38: with no browser (never started, or closed) the screenshot is none and
\* click, type, key and the login fill answer success = false at once; the
\* call creates no browser and leaves the in-progress flag, the cookie file
\* and the history file as they were.
C38_NoBrowserNoEffect ==
  [][(driver = "none" /\ RelayCalled) =>
       /\ call'.done
       /\ ~call'.res.success
       /\ ~call'.res.screenshot
       /\ call'.res.error \in {"no_screenshot", "no_browser", "no_credentials"}
       /\ call'.eff = {}
       /\ driver' = "none"
       /\ auth_in_progress' = auth_in_progress
       /\ cookie_file' = cookie_file
       /\ history_file' = history_file
       /\ last_tank_data' = last_tank_data]_vars

\* a click was refused after close(), in a process that had a session in
\* progress, saved cookies and a history
C38_Witness ==
  /\ call.kind = "click"
  /\ call.done
  /\ call.res.error = "no_browser"
  /\ driver = "none"
  /\ auth_in_progress
  /\ cookie_file = {"sid"}
  /\ Len(history_file) = 3

\* the n newest entries of the history, oldest first
Newest(history, n) ==
  SubSeq(history, Len(history) - n + 1, Len(history))

\* C39: get_history(limit) answers, for every limit >= 0, with the
\* min(limit, length) newest entries of the history file, oldest first: never
\* more than limit entries.
C39_WindowAtMostLimit ==
  (/\ call.kind = "get_history"
   /\ call.done
   /\ "read_failed" \notin call.eff) =>
     LET limit == call.res.limit
         n == IF limit < Len(history_file) THEN limit ELSE Len(history_file)
     IN  /\ Len(call.res.history) <= limit
         /\ call.res.history = Newest(history_file, n)

====
